---- MODULE Spec2Model ----
(***************************************************************************)
(* Model of mujoco_mojo's XML serialization core (src/mujoco_mojo/base.py): *)
(* the value formatter, XMLModel.to_xml, _collect_xml_attributes, the      *)
(* type-definition-time schema check and the exclusivity validator,        *)
(* together with the node types that are serialized through them.          *)
(*                                                                         *)
(* Text is modelled as a sequence of one-character strings, so that        *)
(* joining, stripping and number formatting are computed, not assumed.     *)
(***************************************************************************)
EXTENDS Integers, Sequences, FiniteSets, TLC

VARIABLES
    pending,   \* class statements not yet executed, in program order
    classes,   \* names of the node types whose definition succeeded
    checks,    \* type name -> number of runs of __pydantic_init_subclass__
    decls,     \* type name -> the class statement that declares it
    heap,      \* node id (index) -> instance: [cls, fields]
    result     \* outcome of the last operation

vars == <<pending, classes, checks, decls, heap, result>>

----------------------------------------------------------------------------
(* Bounds of the model *)

\* most nodes alive at once
MaxNodes == 3
\* longest numeric sequence handed to the formatter
MaxLen == 3
\* longest list of child nodes a caller passes
MaxList == 2
\* deepest Python call stack the serializer may use before RecursionError
RecursionLimit == 4

----------------------------------------------------------------------------
(* Python values.  Every value is a record of one shape:                   *)
(*   k  kind; n  number (bool 0/1, int, float in tenths, node id);         *)
(*   s  text of a str / value of an enum member; m  enum member name;      *)
(*   e  items of a tuple, list or array.                                   *)

Val(k, n, s, m, e) == [k |-> k, n |-> n, s |-> s, m |-> m, e |-> e]

None == Val("none", 0, <<>>, <<>>, <<>>)
\* the default of a field that has none: the field is required
Missing == Val("missing", 0, <<>>, <<>>, <<>>)
PyBool(b) == Val("bool", IF b THEN 1 ELSE 0, <<>>, <<>>, <<>>)
PyInt(i) == Val("int", i, <<>>, <<>>, <<>>)
\* a float with one decimal digit, given in tenths: PyFloat(5) is 0.5
PyFloat(t) == Val("float", t, <<>>, <<>>, <<>>)
PyStr(s) == Val("str", 0, s, <<>>, <<>>)
\* a StrEnum member: its name and its underlying string value
PyEnum(m, s) == Val("enum", 0, s, m, <<>>)
PyTuple(e) == Val("tuple", 0, <<>>, <<>>, e)
PyList(e) == Val("list", 0, <<>>, <<>>, e)
NdArray(e) == Val("ndarray", 0, <<>>, <<>>, e)
\* a reference to the XMLModel instance heap[id]
NodeRef(id) == Val("node", id, <<>>, <<>>, <<>>)

\* isinstance(value, bool)
is_bool(v) == v.k = "bool"
\* isinstance(value, str): a StrEnum member is a str
is_str(v) == v.k \in {"str", "enum"}
\* isinstance(value, (Sequence, np.ndarray)): a str is a Sequence too
is_sequence(v) == v.k \in {"tuple", "list", "ndarray", "str", "enum"}
\* isinstance(value, XMLModel)
is_xmlmodel(v) == v.k = "node"
\* isinstance(value, list)
is_list(v) == v.k = "list"

\* what iterating over a value yields: the items of a tuple, list or array,
\* the characters of a string
Items(v) ==
    IF is_str(v) THEN [i \in 1..Len(v.s) |-> PyStr(<<v.s[i]>>)] ELSE v.e

----------------------------------------------------------------------------
(* Python's str() on the scalar kinds *)

Digit(d) == <<"0", "1", "2", "3", "4", "5", "6", "7", "8", "9">>[d + 1]

RECURSIVE NatStr(_)
NatStr(n) == IF n < 10 THEN <<Digit(n)>> ELSE NatStr(n \div 10) \o <<Digit(n % 10)>>

Abs(i) == IF i < 0 THEN -i ELSE i
Sign(i) == IF i < 0 THEN <<"-">> ELSE <<>>

str(v) ==
    CASE v.k = "none" -> <<"N", "o", "n", "e">>
      [] v.k = "bool" -> IF v.n = 1 THEN <<"T", "r", "u", "e">>
                                     ELSE <<"F", "a", "l", "s", "e">>
      [] v.k = "int" -> Sign(v.n) \o NatStr(Abs(v.n))
      [] v.k = "float" -> Sign(v.n) \o NatStr(Abs(v.n) \div 10) \o <<".">>
                              \o <<Digit(Abs(v.n) % 10)>>
      [] v.k \in {"str", "enum"} -> v.s

\* sep.join(parts)
RECURSIVE Join(_, _)
Join(parts, sep) ==
    IF parts = <<>> THEN <<>>
    ELSE IF Len(parts) = 1 THEN parts[1]
    ELSE parts[1] \o sep \o Join(Tail(parts), sep)

\* a separator slip: ",".join(map(str, v))
_tuple_string_comma(v) ==
    Join([i \in 1..Len(Items(v)) |-> str(Items(v)[i])], <<",">>)

\* base.py: " ".join(map(str, v))
_tuple_string(v) ==
    Join([i \in 1..Len(Items(v)) |-> str(Items(v)[i])], <<" ">>)

\* the formatter without its boolean rule
_format_value_no_bool(value) ==
    IF is_sequence(value) /\ ~is_str(value) THEN _tuple_string(value)
    ELSE str(value)

\* the formatter taking an enum member's name instead of its value
_format_value_by_name(value) ==
    IF is_bool(value) THEN
        (IF value.n = 1 THEN <<"t", "r", "u", "e">> ELSE <<"f", "a", "l", "s", "e">>)
    ELSE IF is_sequence(value) /\ ~is_str(value) THEN _tuple_string(value)
    ELSE IF value.k = "enum" THEN value.m
    ELSE str(value)

\* base.py: _format_value
_format_value(value) ==
    IF is_bool(value) THEN
        (IF value.n = 1 THEN <<"t", "r", "u", "e">> ELSE <<"f", "a", "l", "s", "e">>)
    ELSE IF is_sequence(value) /\ ~is_str(value) THEN _tuple_string(value)
    ELSE str(value)

\* the sequences over S of length at most n
RECURSIVE SeqsUpTo(_, _)
SeqsUpTo(S, n) ==
    IF n = 0 THEN {<<>>}
    ELSE LET shorter == SeqsUpTo(S, n - 1)
         IN  shorter \cup {Append(q, x) : q \in shorter, x \in S}

----------------------------------------------------------------------------
(* Outcomes *)

NoError == [exc |-> "", msg |-> "", cls |-> "", detail |-> <<>>]
Error(exc, msg, cls, detail) == [exc |-> exc, msg |-> msg, cls |-> cls, detail |-> detail]
NoElement == [tag |-> "", attrib |-> <<>>, children |-> <<>>]

NoResult ==
    [op |-> "none", cls |-> "", node |-> 0, args |-> <<>>, val |-> None,
     out |-> <<>>, err |-> NoError, el |-> NoElement]

----------------------------------------------------------------------------
(* Node types.  A class statement is a record:                             *)
(*   base        the class it derives from                                 *)
(*   body        the names bound in the class body that are not fields     *)
(*               (what vars(cls) holds besides pydantic's own entries)     *)
(*   tag, attributes, children, groups   the ClassVars of XMLModel         *)
(*   consts      values of further class-level constants                   *)
(*   fields      the pydantic fields declared in the body, in order        *)
(*   validators  the model validators declared in the body, in order       *)
(* A field is [name, default (Missing: required), samples (scalar values   *)
(* callers pass), holds (classes of the nodes it may hold), many (a list   *)
(* of nodes)].                                                             *)

FD(name, default, samples, holds, many) ==
    [name |-> name, default |-> default, samples |-> samples,
     holds |-> holds, many |-> many]

Scalar(name, default, samples) == FD(name, default, samples, {}, FALSE)
NodeField(name, holds) == FD(name, None, {}, holds, FALSE)
ListField(name, holds) == FD(name, PyList(<<>>), {}, holds, TRUE)

TextA == <<"a">>
Vec3Zero == NdArray(<<PyInt(0), PyInt(0), PyInt(0)>>)
Vec3Ones == NdArray(<<PyFloat(10), PyFloat(10), PyFloat(10)>>)
Vec6Diag == NdArray(<<PyFloat(10), PyFloat(10), PyFloat(10),
                      PyFloat(0), PyFloat(0), PyFloat(0)>>)
\* base.py: class XMLModel(BaseModel)
XMLModelDecl ==
    [base |-> "", body |-> {"attributes", "children", "__exclusive_groups__",
                            "to_xml", "_collect_xml_attributes",
                            "__pydantic_init_subclass__", "enforce_exclusive_groups"},
     tag |-> "", attributes |-> <<>>, children |-> <<>>, groups |-> <<>>,
     consts |-> <<>>, fields |-> <<>>,
     validators |-> <<"enforce_exclusive_groups">>]

\* mjcf/mujoco_attr/body_attr/inertial.py: class Inertial(XMLModel)
InertialDecl ==
    [base |-> "XMLModel",
     body |-> {"tag", "attributes", "__exclusive_groups__", "using_diag",
               "inertia_matrix", "validate_mass", "validate_diaginertia",
               "validate_fullinertia", "validate_inertia_physics"},
     tag |-> "inertial",
     attributes |-> <<"pos", "orientation", "mass", "diaginertia", "fullinertia">>,
     children |-> <<>>,
     groups |-> << <<"diaginertia", "fullinertia">> >>,
     consts |-> <<>>,
     fields |-> <<Scalar("pos", Missing, {Vec3Zero}),
                  NodeField("orientation", {"Quat", "AxisAngle", "Euler", "XYAxes", "ZAxis"}),
                  Scalar("mass", Missing, {PyFloat(10)}),
                  Scalar("diaginertia", None, {Vec3Ones}),
                  Scalar("fullinertia", None, {Vec6Diag})>>,
     validators |-> <<"validate_inertia_physics">>]

\* mjcf/mujoco_attr/body.py: class Body(XMLModel)
BodyDecl ==
    [base |-> "XMLModel",
     body |-> {"tag", "attributes", "children"},
     tag |-> "body",
     attributes |-> <<"name", "childclass", "pos", "orientation", "mocap",
                      "gravcomp", "sleep", "user">>,
     children |-> <<"inertial", "joints", "freejoints", "geoms", "sites",
                    "cameras", "lights", "composites", "flexcomps", "plugins",
                    "attaches", "frames", "bodies">>,
     groups |-> <<>>,
     consts |-> <<>>,
     fields |-> <<Scalar("name", None, {PyStr(TextA)}),
                  Scalar("childclass", None, {}),
                  Scalar("mocap", None, {}),
                  NodeField("pos", {"Pos"}),
                  NodeField("orientation", {"Quat", "AxisAngle", "Euler", "XYAxes", "ZAxis"}),
                  Scalar("gravcomp", None, {}),
                  Scalar("sleep", None, {}),
                  Scalar("user", None, {}),
                  NodeField("inertial", {"Inertial"}),
                  ListField("joints", {"Joint"}),
                  ListField("freejoints", {"FreeJoint"}),
                  ListField("geoms", {"GeomPlane", "GeomSphere"}),
                  ListField("sites", {"SiteSphere"}),
                  Scalar("cameras", PyList(<<>>), {}),
                  Scalar("lights", PyList(<<>>), {}),
                  Scalar("composites", PyList(<<>>), {}),
                  Scalar("flexcomps", PyList(<<>>), {}),
                  ListField("plugins", {"Plugin"}),
                  Scalar("attaches", PyList(<<>>), {}),
                  Scalar("frames", PyList(<<>>), {}),
                  ListField("bodies", {"Body", "WorldBody"})>>,
     validators |-> <<>>]

(* Node types of a client program, written the way the library's own are: *)
(* helper nodes with an empty tag that exist to be flattened, an element   *)
(* type that holds one, and class statements whose name lists are wrong.   *)

\* class Leaf(XMLModel): tag = ""; attributes = ("x_", "name")
LeafDecl ==
    [base |-> "XMLModel", body |-> {"tag", "attributes"},
     tag |-> "", attributes |-> <<"x_", "name">>, children |-> <<>>,
     groups |-> <<>>, consts |-> <<>>,
     fields |-> <<Scalar("name", None, {PyStr(TextA)}),
                  Scalar("x_", None, {PyInt(1)})>>,
     validators |-> <<>>]

\* class Kids(XMLModel): tag = "kids"; children = ("item",)
KidsDecl ==
    [base |-> "XMLModel", body |-> {"tag", "children"},
     tag |-> "kids", attributes |-> <<>>, children |-> <<"item">>,
     groups |-> <<>>, consts |-> <<>>,
     fields |-> <<NodeField("item", {"Leaf"})>>,
     validators |-> <<>>]

\* class Parent(XMLModel): tag = "parent"; attributes = ("name", "pos", "x")
ParentDecl ==
    [base |-> "XMLModel", body |-> {"tag", "attributes"},
     tag |-> "parent", attributes |-> <<"name", "pos", "x">>, children |-> <<>>,
     groups |-> <<>>, consts |-> <<>>,
     fields |-> <<Scalar("name", None, {PyStr(<<"b">>)}),
                  NodeField("pos", {"Leaf", "Kids", "Parent"}),
                  Scalar("x", None, {PyInt(2)})>>,
     validators |-> <<>>]

\* class Tagged(XMLModel): kind: ClassVar[str] = "free";
\* attributes = ("kind", "name")   (as FreeJoint declares `type`)
TaggedDecl ==
    [base |-> "XMLModel", body |-> {"tag", "attributes", "kind"},
     tag |-> "joint", attributes |-> <<"kind", "name">>, children |-> <<>>,
     groups |-> <<>>,
     consts |-> <<[name |-> "kind", value |-> PyStr(<<"f", "r", "e", "e">>)]>>,
     fields |-> <<Scalar("name", None, {})>>,
     validators |-> <<>>]

\* class BadAttr(XMLModel): attributes = ("name", "colour") with no field colour
BadAttrDecl ==
    [base |-> "XMLModel", body |-> {"tag", "attributes"},
     tag |-> "bad", attributes |-> <<"name", "colour">>, children |-> <<>>,
     groups |-> <<>>, consts |-> <<>>,
     fields |-> <<Scalar("name", None, {})>>,
     validators |-> <<>>]

\* class BadChild(XMLModel): children = ("wheels",) with no field wheels
BadChildDecl ==
    [base |-> "XMLModel", body |-> {"tag", "attributes", "children"},
     tag |-> "bad", attributes |-> <<"name">>, children |-> <<"wheels">>,
     groups |-> <<>>, consts |-> <<>>,
     fields |-> <<Scalar("name", None, {})>>,
     validators |-> <<>>]

\* class Styled(XMLModel): tag = ""; attributes = ("class_", "y__", "name")
\* (class_ as the library's Geom, Site, Camera, Light and Joint declare it)
StyledDecl ==
    [base |-> "XMLModel", body |-> {"tag", "attributes"},
     tag |-> "", attributes |-> <<"class_", "y__", "name">>, children |-> <<>>,
     groups |-> <<>>, consts |-> <<>>,
     fields |-> <<Scalar("class_", None, {PyStr(TextA)}),
                  Scalar("y__", None, {PyInt(1)}),
                  Scalar("name", None, {PyStr(<<"b">>)})>>,
     validators |-> <<>>]

\* class Frame(XMLModel): tag = "frame"; attributes = ("style",)
FrameDecl ==
    [base |-> "XMLModel", body |-> {"tag", "attributes"},
     tag |-> "frame", attributes |-> <<"style">>, children |-> <<>>,
     groups |-> <<>>, consts |-> <<>>,
     fields |-> <<NodeField("style", {"Styled"})>>,
     validators |-> <<>>]

\* class Pair(XMLModel): __exclusive_groups__ = (("a", "b"),)
PairDecl ==
    [base |-> "XMLModel", body |-> {"tag", "attributes", "__exclusive_groups__"},
     tag |-> "pair", attributes |-> <<"a", "b">>, children |-> <<>>,
     groups |-> << <<"a", "b">> >>, consts |-> <<>>,
     fields |-> <<Scalar("a", None, {PyInt(1)}),
                  Scalar("b", None, {PyInt(2)})>>,
     validators |-> <<>>]

\* class Derived(Tagged): pass   (a subclass that inherits `attributes` and
\* the constant `kind`, as a subclass of MeshSphere inherits `builtin`)
DerivedDecl ==
    [base |-> "Tagged", body |-> {},
     tag |-> "joint", attributes |-> <<"kind", "name">>, children |-> <<>>,
     groups |-> <<>>, consts |-> <<>>, fields |-> <<>>, validators |-> <<>>]

\* class Listed(XMLModel): tag = "listed"; attributes = ("name", "user")
\* (name: Optional[str] and user: Optional[VecN] as Body declares them), with
\* callers that pass an empty string and an empty array
ListedDecl ==
    [base |-> "XMLModel", body |-> {"tag", "attributes"},
     tag |-> "listed", attributes |-> <<"name", "user">>, children |-> <<>>,
     groups |-> <<>>, consts |-> <<>>,
     fields |-> <<Scalar("name", None, {PyStr(<<>>), PyStr(TextA)}),
                  Scalar("user", None, {NdArray(<<>>), NdArray(<<PyInt(1)>>)})>>,
     validators |-> <<>>]

\* class Preset(XMLModel): __exclusive_groups__ = (("a", "b"),);
\* a: Optional[int] = 1; b: Optional[int] = None   (a group field with a
\* default other than None; callers may pass a=None)
PresetDecl ==
    [base |-> "XMLModel", body |-> {"tag", "attributes", "__exclusive_groups__"},
     tag |-> "preset", attributes |-> <<"a", "b">>, children |-> <<>>,
     groups |-> << <<"a", "b">> >>, consts |-> <<>>,
     fields |-> <<Scalar("a", PyInt(1), {None, PyInt(3)}),
                  Scalar("b", None, {PyInt(2)})>>,
     validators |-> <<>>]

\* class Nest(XMLModel): tag = "nest"; attributes = ("name",);
\* children = ("bodies",); bodies: Sequence[Nest], as Body declares `bodies`
NestDecl ==
    [base |-> "XMLModel", body |-> {"tag", "attributes", "children"},
     tag |-> "nest", attributes |-> <<"name">>, children |-> <<"bodies">>,
     groups |-> <<>>, consts |-> <<>>,
     fields |-> <<Scalar("name", None, {PyStr(TextA)}),
                  ListField("bodies", {"Nest"})>>,
     validators |-> <<>>]

\* class Twin(XMLModel): tag = "twin"; attributes = ("a", "b"), two flattened
\* helper nodes (as Body holds `pos` and `orientation`)
TwinDecl ==
    [base |-> "XMLModel", body |-> {"tag", "attributes"},
     tag |-> "twin", attributes |-> <<"a", "b">>, children |-> <<>>,
     groups |-> <<>>, consts |-> <<>>,
     fields |-> <<NodeField("a", {"Leaf"}), NodeField("b", {"Leaf"})>>,
     validators |-> <<>>]

\* mjcf/orientation.py: the members of OrientationType (auto() of a StrEnum
\* gives the lower-cased name)
QUAT == PyEnum(<<"Q", "U", "A", "T">>, <<"q", "u", "a", "t">>)
AXISANGLE == PyEnum(<<"A", "X", "I", "S", "A", "N", "G", "L", "E">>,
                    <<"a", "x", "i", "s", "a", "n", "g", "l", "e">>)
EULER == PyEnum(<<"E", "U", "L", "E", "R">>, <<"e", "u", "l", "e", "r">>)
XYAXES == PyEnum(<<"X", "Y", "A", "X", "E", "S">>, <<"x", "y", "a", "x", "e", "s">>)
ZAXIS == PyEnum(<<"Z", "A", "X", "I", "S">>, <<"z", "a", "x", "i", "s">>)
\* types.py: SPHERE and JointType.FREE
SPHERE == PyEnum(<<"S", "P", "H", "E", "R", "E">>, <<"s", "p", "h", "e", "r", "e">>)
FREE == PyEnum(<<"F", "R", "E", "E">>, <<"f", "r", "e", "e">>)

\* types.py: the other members of GeomType
PLANE == PyEnum(<<"P", "L", "A", "N", "E">>, <<"p", "l", "a", "n", "e">>)
HFIELD == PyEnum(<<"H", "F", "I", "E", "L", "D">>, <<"h", "f", "i", "e", "l", "d">>)
CAPSULE == PyEnum(<<"C", "A", "P", "S", "U", "L", "E">>,
                  <<"c", "a", "p", "s", "u", "l", "e">>)
ELLIPSOID == PyEnum(<<"E", "L", "L", "I", "P", "S", "O", "I", "D">>,
                    <<"e", "l", "l", "i", "p", "s", "o", "i", "d">>)
CYLINDER == PyEnum(<<"C", "Y", "L", "I", "N", "D", "E", "R">>,
                   <<"c", "y", "l", "i", "n", "d", "e", "r">>)
BOX == PyEnum(<<"B", "O", "X">>, <<"b", "o", "x">>)
MESH == PyEnum(<<"M", "E", "S", "H">>, <<"m", "e", "s", "h">>)
SDF == PyEnum(<<"S", "D", "F">>, <<"s", "d", "f">>)

Vec3Half == NdArray(<<PyFloat(5), PyFloat(0), PyFloat(5)>>)
Vec3Z == NdArray(<<PyInt(0), PyInt(0), PyInt(1)>>)
Vec4Unit == NdArray(<<PyInt(1), PyInt(0), PyInt(0), PyInt(0)>>)
Vec4Half == NdArray(<<PyFloat(5), PyFloat(5), PyFloat(5), PyFloat(5)>>)
Vec6Axes == NdArray(<<PyInt(1), PyInt(0), PyInt(0), PyInt(0), PyInt(1), PyInt(0)>>)
Vec6Swap == NdArray(<<PyInt(0), PyInt(1), PyInt(0), PyInt(1), PyInt(0), PyInt(0)>>)

\* mjcf/orientation.py: class OrientationBase(XMLModel)
OrientationBaseDecl ==
    [base |-> "XMLModel",
     body |-> {"tag", "as_quat", "as_matrix", "_to_rotation"},
     tag |-> "", attributes |-> <<>>, children |-> <<>>, groups |-> <<>>,
     consts |-> <<>>, fields |-> <<>>, validators |-> <<>>]

\* mjcf/orientation.py: class Quat(OrientationBase)
QuatDecl ==
    [base |-> "OrientationBase", body |-> {"attributes"},
     tag |-> "", attributes |-> <<"quat">>, children |-> <<>>, groups |-> <<>>,
     consts |-> <<>>,
     fields |-> <<Scalar("type", QUAT, {}),
                  Scalar("quat", Vec4Unit, {Vec4Half})>>,
     validators |-> <<>>]

\* mjcf/orientation.py: class AxisAngle(OrientationBase)
AxisAngleDecl ==
    [base |-> "OrientationBase", body |-> {"attributes"},
     tag |-> "", attributes |-> <<"axisangle">>, children |-> <<>>, groups |-> <<>>,
     consts |-> <<>>,
     fields |-> <<Scalar("type", AXISANGLE, {}),
                  Scalar("axisangle", Vec4Unit, {Vec4Half})>>,
     validators |-> <<>>]

\* mjcf/orientation.py: class Euler(OrientationBase)
EulerDecl ==
    [base |-> "OrientationBase", body |-> {"attributes"},
     tag |-> "", attributes |-> <<"euler">>, children |-> <<>>, groups |-> <<>>,
     consts |-> <<>>,
     fields |-> <<Scalar("type", EULER, {}),
                  Scalar("euler", Vec3Zero, {Vec3Half})>>,
     validators |-> <<>>]

\* mjcf/orientation.py: class XYAxes(OrientationBase)
XYAxesDecl ==
    [base |-> "OrientationBase", body |-> {"attributes"},
     tag |-> "", attributes |-> <<"xyaxes">>, children |-> <<>>, groups |-> <<>>,
     consts |-> <<>>,
     fields |-> <<Scalar("type", XYAXES, {}),
                  Scalar("xyaxes", Vec6Axes, {Vec6Swap})>>,
     validators |-> <<>>]

\* mjcf/orientation.py: class ZAxis(OrientationBase)
ZAxisDecl ==
    [base |-> "OrientationBase", body |-> {"attributes"},
     tag |-> "", attributes |-> <<"zaxis">>, children |-> <<>>, groups |-> <<>>,
     consts |-> <<>>,
     fields |-> <<Scalar("type", ZAXIS, {}),
                  Scalar("zaxis", Vec3Z, {Vec3Half})>>,
     validators |-> <<>>]

\* mjcf/position.py: class Pos(XMLModel); the class declares no `attributes`
PosDecl ==
    [base |-> "XMLModel", body |-> {"tag", "__eq__"},
     tag |-> "", attributes |-> <<>>, children |-> <<>>, groups |-> <<>>,
     consts |-> <<>>,
     fields |-> <<Scalar("pos", Vec3Zero, {Vec3Half})>>,
     validators |-> <<>>]

\* mjcf/mujoco_attr/body_attr/geom.py: _geom_attr, without the entries for
\* contact, material, mass, solver and fluid settings (contype ... user),
\* which name optional fields that no sample sets
_geom_attr ==
    <<"name", "class_", "type", "pos", "quat", "axisangle", "xyaxes", "zaxis",
      "euler">>

\* mjcf/mujoco_attr/body_attr/geom.py: class GeomBase(XMLModel), with the
\* fields of the frame and the identifying ones
GeomBaseDecl ==
    [base |-> "XMLModel", body |-> {"model_config", "tag"},
     tag |-> "geom", attributes |-> <<>>, children |-> <<>>, groups |-> <<>>,
     consts |-> <<>>,
     fields |-> <<Scalar("name", None, {}),
                  Scalar("class_", None, {}),
                  Scalar("pos", None, {}),
                  Scalar("quat", None, {Vec3Z}),
                  Scalar("axisangle", None, {}),
                  Scalar("xyaxes", None, {}),
                  Scalar("zaxis", None, {}),
                  Scalar("euler", None, {Vec3Half})>>,
     validators |-> <<>>]

\* mjcf/mujoco_attr/body_attr/geom.py: class GeomSphere(GeomBase)
GeomSphereDecl ==
    [base |-> "GeomBase", body |-> {"attributes"},
     tag |-> "", attributes |-> _geom_attr \o <<"size">>, children |-> <<>>,
     groups |-> <<>>, consts |-> <<>>,
     fields |-> <<Scalar("type", SPHERE, {}),
                  Scalar("size", None, {PyFloat(5)})>>,
     validators |-> <<>>]

\* mjcf/mujoco_attr/body_attr/free_joint.py: class FreeJoint(XMLModel); `type`
\* is a ClassVar and the class declares no `attributes`
FreeJointDecl ==
    [base |-> "XMLModel", body |-> {"tag", "type"},
     tag |-> "joint", attributes |-> <<>>, children |-> <<>>, groups |-> <<>>,
     consts |-> <<[name |-> "type", value |-> FREE]>>,
     fields |-> <<Scalar("name", None, {PyStr(TextA)}),
                  Scalar("group", None, {PyInt(1)}),
                  Scalar("align", None, {})>>,
     validators |-> <<>>]

\* mjcf/mujoco_attr/body.py: _world_body_children, the tuple the module builds
\* by removing "inertial" and "joints" from a copy of _body_children
_world_body_children ==
    <<"freejoints", "geoms", "sites", "cameras", "lights", "composites",
      "flexcomps", "plugins", "attaches", "frames", "bodies">>

\* mjcf/mujoco_attr/body.py: class WorldBody(Body)
WorldBodyDecl ==
    [base |-> "Body", body |-> {"tag", "attributes", "children"},
     tag |-> "worldbody", attributes |-> <<>>, children |-> _world_body_children,
     groups |-> <<>>, consts |-> <<>>, fields |-> <<>>, validators |-> <<>>]

\* mjcf/mujoco_attr/body_attr/joint.py: class Joint(XMLModel), whose
\* `attributes` is the empty tuple, with its first fields
JointDecl ==
    [base |-> "XMLModel", body |-> {"tag", "attributes"},
     tag |-> "joint", attributes |-> <<>>, children |-> <<>>, groups |-> <<>>,
     consts |-> <<>>,
     fields |-> <<Scalar("name", None, {PyStr(TextA)}),
                  Scalar("class_", None, {}),
                  Scalar("type", None, {FREE}),
                  Scalar("group", None, {PyInt(1)})>>,
     validators |-> <<>>]

\* mjcf/mujoco_attr/geom.py: class Geom(XMLModel); callers pass every member
\* of GeomType, and a float or a tuple of one to three floats as size
GeomDecl ==
    [base |-> "XMLModel", body |-> {"tag", "attributes", "validate_vectors"},
     tag |-> "geom", attributes |-> <<"name", "type", "size", "rgba", "pos">>,
     children |-> <<>>, groups |-> <<>>, consts |-> <<>>,
     fields |-> <<Scalar("name", None, {}),
                  Scalar("type", SPHERE,
                         {PLANE, HFIELD, CAPSULE,
                          ELLIPSOID, CYLINDER, BOX,
                          MESH, SDF}),
                  Scalar("size", None,
                         {PyFloat(5), PyTuple(<<PyFloat(5)>>),
                          PyTuple(<<PyFloat(5), PyFloat(5)>>),
                          PyTuple(<<PyFloat(5), PyFloat(5), PyFloat(5)>>)}),
                  Scalar("rgba", None, {}),
                  Scalar("pos", None, {})>>,
     validators |-> <<"validate_vectors">>]

ClassNames ==
    {"XMLModel", "Inertial", "Body", "Leaf", "Kids", "Parent", "Tagged", "BadAttr", "BadChild", "Pair", "Styled", "Frame", "OrientationBase", "Quat", "AxisAngle", "Euler", "XYAxes", "ZAxis", "Pos", "GeomBase", "GeomSphere", "FreeJoint", "WorldBody", "Twin", "Derived", "Listed", "Preset", "Geom", "Nest", "Joint"}

ClassTable ==
    [c \in ClassNames |->
        CASE c = "XMLModel" -> XMLModelDecl
          [] c = "Inertial" -> InertialDecl
          [] c = "Body" -> BodyDecl
          [] c = "Leaf" -> LeafDecl
          [] c = "Kids" -> KidsDecl
          [] c = "Parent" -> ParentDecl
          [] c = "Tagged" -> TaggedDecl
          [] c = "BadAttr" -> BadAttrDecl
          [] c = "BadChild" -> BadChildDecl
          [] c = "Pair" -> PairDecl
          [] c = "Styled" -> StyledDecl
          [] c = "Frame" -> FrameDecl
          [] c = "OrientationBase" -> OrientationBaseDecl
          [] c = "Quat" -> QuatDecl
          [] c = "AxisAngle" -> AxisAngleDecl
          [] c = "Euler" -> EulerDecl
          [] c = "XYAxes" -> XYAxesDecl
          [] c = "ZAxis" -> ZAxisDecl
          [] c = "Pos" -> PosDecl
          [] c = "GeomBase" -> GeomBaseDecl
          [] c = "GeomSphere" -> GeomSphereDecl
          [] c = "FreeJoint" -> FreeJointDecl
          [] c = "WorldBody" -> WorldBodyDecl
          [] c = "Twin" -> TwinDecl
          [] c = "Derived" -> DerivedDecl
          [] c = "Listed" -> ListedDecl
          [] c = "Preset" -> PresetDecl
          [] c = "Geom" -> GeomDecl
          [] c = "Nest" -> NestDecl
          [] c = "Joint" -> JointDecl]

ClassDecl(c) == decls[c]

\* the classes of c's method resolution order, c first
RECURSIVE Mro(_)
Mro(c) == IF c = "" THEN <<>> ELSE <<c>> \o Mro(ClassDecl(c).base)

\* the nearest class of the MRO whose body binds `name`
RECURSIVE Owner(_, _)
Owner(c, name) ==
    IF c = "" THEN ""
    ELSE IF name \in ClassDecl(c).body THEN c
    ELSE Owner(ClassDecl(c).base, name)

\* cls.tag, cls.attributes, cls.children, cls.__exclusive_groups__
tag(c) == ClassDecl(Owner(c, "tag")).tag
attributes(c) == ClassDecl(Owner(c, "attributes")).attributes
children(c) == ClassDecl(Owner(c, "children")).children
__exclusive_groups__(c) == ClassDecl(Owner(c, "__exclusive_groups__")).groups

Range(q) == {q[i] : i \in DOMAIN q}

\* the field descriptors of c, inherited ones first
RECURSIVE FieldDescs(_)
FieldDescs(c) ==
    IF c = "" THEN <<>> ELSE FieldDescs(ClassDecl(c).base) \o ClassDecl(c).fields

\* cls.model_fields.keys()
model_fields(c) == {fd.name : fd \in Range(FieldDescs(c))}

FieldDesc(c, f) == CHOOSE fd \in Range(FieldDescs(c)) : fd.name = f

\* the model validators that run after the fields are set, base classes first
RECURSIVE Validators(_)
Validators(c) ==
    IF c = "" THEN <<>> ELSE Validators(ClassDecl(c).base) \o ClassDecl(c).validators

\* the value of the class-level constant `name` as seen from c, None if
\* no class of the MRO binds one
ClassConst(c, name) ==
    IF Owner(c, name) = "" THEN None
    ELSE LET found == {e \in Range(ClassDecl(Owner(c, name)).consts) : e.name = name}
         IN  IF found = {} THEN None ELSE (CHOOSE e \in found : TRUE).value

\* the schema check without its loop over `children`
__pydantic_init_subclass___attributes_only(cls) ==
    LET valid_names == model_fields(cls) \cup ClassDecl(cls).body
        bad == {i \in DOMAIN attributes(cls) : attributes(cls)[i] \notin valid_names}
    IN  IF bad # {}
        THEN Error("TypeError", "attribute is not defined as a field or class variable",
                   cls, <<attributes(cls)[CHOOSE i \in bad : \A j \in bad : i <= j]>>)
        ELSE NoError

\* base.py: XMLModel.__pydantic_init_subclass__
__pydantic_init_subclass__(cls) ==
    LET valid_names == model_fields(cls) \cup ClassDecl(cls).body
        badA == {i \in DOMAIN attributes(cls) : attributes(cls)[i] \notin valid_names}
        badC == {i \in DOMAIN children(cls) : children(cls)[i] \notin valid_names}
    IN  IF badA # {}
        THEN Error("TypeError", "attribute is not defined as a field or class variable",
                   cls, <<attributes(cls)[CHOOSE i \in badA : \A j \in badA : i <= j]>>)
        ELSE IF badC # {}
        THEN Error("TypeError", "child is not defined as a field or class variable",
                   cls, <<children(cls)[CHOOSE i \in badC : \A j \in badC : i <= j]>>)
        ELSE NoError

----------------------------------------------------------------------------
(* Instances and the serializer *)

\* the characters of a declared name
Chars(name) ==
    CASE name = "name" -> <<"n", "a", "m", "e">>
      [] name = "x_" -> <<"x", "_">>
      [] name = "class_" -> <<"c", "l", "a", "s", "s", "_">>
      [] name = "y__" -> <<"y", "_", "_">>
      [] name = "style" -> <<"s", "t", "y", "l", "e">>
      [] name = "pos" -> <<"p", "o", "s">>
      [] name = "type" -> <<"t", "y", "p", "e">>
      [] name = "quat" -> <<"q", "u", "a", "t">>
      [] name = "axisangle" -> <<"a", "x", "i", "s", "a", "n", "g", "l", "e">>
      [] name = "xyaxes" -> <<"x", "y", "a", "x", "e", "s">>
      [] name = "zaxis" -> <<"z", "a", "x", "i", "s">>
      [] name = "euler" -> <<"e", "u", "l", "e", "r">>
      [] name = "size" -> <<"s", "i", "z", "e">>
      [] name = "group" -> <<"g", "r", "o", "u", "p">>
      [] name = "align" -> <<"a", "l", "i", "g", "n">>
      [] name = "rgba" -> <<"r", "g", "b", "a">>
      [] name = "x" -> <<"x">>
      [] name = "kind" -> <<"k", "i", "n", "d">>
      [] name = "colour" -> <<"c", "o", "l", "o", "u", "r">>
      [] name = "wheels" -> <<"w", "h", "e", "e", "l", "s">>
      [] name = "item" -> <<"i", "t", "e", "m">>
      [] name = "a" -> <<"a">>
      [] name = "b" -> <<"b">>
      [] name = "orientation" -> <<"o", "r", "i", "e", "n", "t", "a", "t", "i", "o", "n">>
      [] name = "mass" -> <<"m", "a", "s", "s">>
      [] name = "diaginertia" -> <<"d", "i", "a", "g", "i", "n", "e", "r", "t", "i", "a">>
      [] name = "fullinertia" -> <<"f", "u", "l", "l", "i", "n", "e", "r", "t", "i", "a">>
      [] name = "childclass" -> <<"c", "h", "i", "l", "d", "c", "l", "a", "s", "s">>
      [] name = "mocap" -> <<"m", "o", "c", "a", "p">>
      [] name = "gravcomp" -> <<"g", "r", "a", "v", "c", "o", "m", "p">>
      [] name = "sleep" -> <<"s", "l", "e", "e", "p">>
      [] name = "user" -> <<"u", "s", "e", "r">>
      [] name = "inertial" -> <<"i", "n", "e", "r", "t", "i", "a", "l">>
      [] name = "joints" -> <<"j", "o", "i", "n", "t", "s">>
      [] name = "freejoints" -> <<"f", "r", "e", "e", "j", "o", "i", "n", "t", "s">>
      [] name = "geoms" -> <<"g", "e", "o", "m", "s">>
      [] name = "sites" -> <<"s", "i", "t", "e", "s">>
      [] name = "cameras" -> <<"c", "a", "m", "e", "r", "a", "s">>
      [] name = "lights" -> <<"l", "i", "g", "h", "t", "s">>
      [] name = "composites" -> <<"c", "o", "m", "p", "o", "s", "i", "t", "e", "s">>
      [] name = "flexcomps" -> <<"f", "l", "e", "x", "c", "o", "m", "p", "s">>
      [] name = "plugins" -> <<"p", "l", "u", "g", "i", "n", "s">>
      [] name = "attaches" -> <<"a", "t", "t", "a", "c", "h", "e", "s">>
      [] name = "frames" -> <<"f", "r", "a", "m", "e", "s">>
      [] name = "bodies" -> <<"b", "o", "d", "i", "e", "s">>

\* the name used as it is, escape suffix and all
rstrip_none(text) == text

\* str.rstrip("_"): every trailing underscore goes
RECURSIVE rstrip(_)
rstrip(text) ==
    IF text # <<>> /\ text[Len(text)] = "_"
    THEN rstrip(SubSeq(text, 1, Len(text) - 1))
    ELSE text

\* getattr(self, field, None): an instance field, else a class-level
\* constant, else the default None
getattr(h, n, field) ==
    IF field \in DOMAIN h[n].fields THEN h[n].fields[field]
    ELSE ClassConst(h[n].cls, field)

\* xml.etree Element.attrib is a dict: an insertion-ordered list of pairs
HasKey(attrib, k) == \E i \in DOMAIN attrib : attrib[i].k = k

\* attrib[k] = v: an existing key keeps its place and takes the new value
DictSet(attrib, k, v) ==
    IF HasKey(attrib, k)
    THEN [i \in DOMAIN attrib |-> IF attrib[i].k = k THEN [k |-> k, v |-> v]
                                                     ELSE attrib[i]]
    ELSE Append(attrib, [k |-> k, v |-> v])

\* attrib.update(sub)
RECURSIVE DictUpdate(_, _)
DictUpdate(attrib, sub) ==
    IF sub = <<>> THEN attrib
    ELSE DictUpdate(DictSet(attrib, Head(sub).k, Head(sub).v), Tail(sub))

\* the first key of sub, in sub's order, that attrib already has
FirstCollision(attrib, sub) ==
    LET hit == {i \in DOMAIN sub : HasKey(attrib, sub[i].k)}
    IN  IF hit = {} THEN 0 ELSE CHOOSE i \in hit : \A j \in hit : i <= j

Collected(err, attrs) == [err |-> err, attrs |-> attrs]
Built(err, el) == [err |-> err, el |-> el]

RecursionError == Error("RecursionError", "maximum recursion depth exceeded", "", <<>>)

RECURSIVE _collect_xml_attributes(_, _, _)
RECURSIVE CollectLoop(_, _, _, _, _, _)

\* base.py: _collect_xml_attributes once `nested` has come back for names[i]
CollectNested(h, n, names, i, attrs, depth, nested) ==
    IF nested.err # NoError THEN nested
    ELSE IF FirstCollision(attrs, nested.attrs) # 0
    THEN Collected(Error("ValueError",
                         "Attribute collision while flattening nested XMLModel", "",
                         nested.attrs[FirstCollision(attrs, nested.attrs)].k), <<>>)
    ELSE CollectLoop(h, n, names, i + 1, DictUpdate(attrs, nested.attrs), depth)

\* base.py: the body of the loop of _collect_xml_attributes for names[i]
CollectValue(h, n, names, i, attrs, depth, value) ==
    IF value = None THEN CollectLoop(h, n, names, i + 1, attrs, depth)
    ELSE IF is_xmlmodel(value)
    THEN CollectNested(h, n, names, i, attrs, depth,
                       _collect_xml_attributes(h, value.n, depth - 1))
    ELSE CollectLoop(h, n, names, i + 1,
                     DictSet(attrs, rstrip(Chars(names[i])), _format_value(value)), depth)

\* base.py: `for field in self.attributes` of _collect_xml_attributes, from
\* names[i] on
CollectLoop(h, n, names, i, attrs, depth) ==
    IF i > Len(names) THEN Collected(NoError, attrs)
    ELSE CollectValue(h, n, names, i, attrs, depth, getattr(h, n, names[i]))

\* _collect_xml_attributes without its guard against children
_collect_xml_attributes_unguarded(h, n, depth) ==
    IF depth = 0 THEN Collected(RecursionError, <<>>)
    ELSE CollectLoop(h, n, attributes(h[n].cls), 1, <<>>, depth)

\* base.py: XMLModel._collect_xml_attributes
_collect_xml_attributes(h, n, depth) ==
    IF depth = 0 THEN Collected(RecursionError, <<>>)
    ELSE IF children(h[n].cls) # <<>> THEN
        Collected(Error("ValueError", "has children and cannot be flattened",
                        h[n].cls, <<>>), <<>>)
    ELSE CollectLoop(h, n, attributes(h[n].cls), 1, <<>>, depth)

RECURSIVE AttrLoop(_, _, _, _, _, _)

\* the flattening branch without its collision check: the keys are merged
AttrFlatten_unchecked(h, n, names, i, attrib, depth, value, sub_attrs) ==
    IF sub_attrs.err # NoError THEN sub_attrs
    ELSE AttrLoop(h, n, names, i + 1, DictUpdate(attrib, sub_attrs.attrs), depth)

\* base.py: to_xml once `sub_attrs` has come back for the node in names[i]
AttrFlatten(h, n, names, i, attrib, depth, value, sub_attrs) ==
    IF sub_attrs.err # NoError THEN sub_attrs
    ELSE IF FirstCollision(attrib, sub_attrs.attrs) # 0
    THEN Collected(Error("ValueError", "Attribute collision while flattening",
                         h[value.n].cls,
                         sub_attrs.attrs[FirstCollision(attrib, sub_attrs.attrs)].k), <<>>)
    ELSE AttrLoop(h, n, names, i + 1, DictUpdate(attrib, sub_attrs.attrs), depth)

\* the body of the attribute loop without `if value is None: continue`
AttrValue_no_skip(h, n, names, i, attrib, depth, value) ==
    IF is_xmlmodel(value)
    THEN AttrFlatten(h, n, names, i, attrib, depth, value,
                     _collect_xml_attributes(h, value.n, depth - 1))
    ELSE AttrLoop(h, n, names, i + 1,
                  DictSet(attrib, rstrip(Chars(names[i])), _format_value(value)), depth)

\* base.py: the body of the attribute loop of to_xml for names[i]
AttrValue(h, n, names, i, attrib, depth, value) ==
    IF value = None THEN AttrLoop(h, n, names, i + 1, attrib, depth)
    ELSE IF is_xmlmodel(value) THEN
        IF children(h[value.n].cls) # <<>>
        THEN Collected(Error("ValueError",
                 "cannot be used as an attribute because it defines children",
                 h[value.n].cls, <<>>), <<>>)
        ELSE AttrFlatten(h, n, names, i, attrib, depth, value,
                         _collect_xml_attributes(h, value.n, depth - 1))
    ELSE AttrLoop(h, n, names, i + 1,
                  DictSet(attrib, rstrip(Chars(names[i])), _format_value(value)), depth)

\* base.py: `for field in self.attributes` of to_xml, from names[i] on
AttrLoop(h, n, names, i, attrib, depth) ==
    IF i > Len(names) THEN Collected(NoError, attrib)
    ELSE AttrValue(h, n, names, i, attrib, depth, getattr(h, n, names[i]))

RECURSIVE to_xml(_, _, _)
RECURSIVE ItemLoop(_, _, _, _, _)
RECURSIVE ChildLoop(_, _, _, _, _, _)

NoToXml == Error("AttributeError", "object has no attribute 'to_xml'", "", <<>>)

\* el.append that puts the child element in front of the earlier ones
ItemAppend_prepend(h, items, j, kids, depth, sub) ==
    IF sub.err # NoError THEN sub
    ELSE ItemLoop(h, items, j + 1, <<sub.el>> \o kids, depth)

\* base.py: el.append(item.to_xml()) once item.to_xml() has come back
ItemAppend(h, items, j, kids, depth, sub) ==
    IF sub.err # NoError THEN sub
    ELSE ItemLoop(h, items, j + 1, Append(kids, sub.el), depth)

\* base.py: `for item in value` from item j on
ItemLoop(h, items, j, kids, depth) ==
    IF j > Len(items) THEN Built(NoError, kids)
    ELSE IF ~is_xmlmodel(items[j]) THEN Built(NoToXml, <<>>)
    ELSE ItemAppend(h, items, j, kids, depth, to_xml(h, items[j].n, depth - 1))

\* base.py: the children loop once the child elements of names[i] are there
ChildAppend(h, n, names, i, depth, sub) ==
    IF sub.err # NoError THEN sub
    ELSE ChildLoop(h, n, names, i + 1, sub.el, depth)

\* the child elements so far and one more
AppendBuilt(kids, sub) ==
    IF sub.err # NoError THEN sub ELSE Built(NoError, Append(kids, sub.el))

\* base.py: the body of the children loop of to_xml for names[i]
ChildValue(h, n, names, i, kids, depth, value) ==
    IF value = None THEN ChildLoop(h, n, names, i + 1, kids, depth)
    ELSE IF is_list(value)
    THEN ChildAppend(h, n, names, i, depth, ItemLoop(h, value.e, 1, kids, depth))
    ELSE IF ~is_xmlmodel(value) THEN Built(NoToXml, <<>>)
    ELSE ChildAppend(h, n, names, i, depth,
                     AppendBuilt(kids, to_xml(h, value.n, depth - 1)))

\* base.py: `for field in self.children` of to_xml, from names[i] on
ChildLoop(h, n, names, i, kids, depth) ==
    IF i > Len(names) THEN Built(NoError, kids)
    ELSE ChildValue(h, n, names, i, kids, depth, getattr(h, n, names[i]))

\* an element that also carries the identity of the instance it came from
Element_with_id(h, n, kids, attrs) ==
    IF kids.err # NoError THEN Built(kids.err, NoElement)
    ELSE Built(NoError, [tag |-> tag(h[n].cls),
                         attrib |-> Append(attrs.attrs, [k |-> <<"i", "d">>, v |-> NatStr(n)]),
                         children |-> kids.el])

\* base.py: `return el` of to_xml
Element(h, n, kids, attrs) ==
    IF kids.err # NoError THEN Built(kids.err, NoElement)
    ELSE Built(NoError, [tag |-> tag(h[n].cls), attrib |-> attrs.attrs,
                         children |-> kids.el])

\* base.py: to_xml after its attribute loop
Children(h, n, depth, attrs) ==
    IF attrs.err # NoError THEN Built(attrs.err, NoElement)
    ELSE Element(h, n, ChildLoop(h, n, children(h[n].cls), 1, <<>>, depth), attrs)

\* a to_xml that emits the field `name` whether or not the type lists it
to_xml_with_name(h, n, depth) ==
    IF depth = 0 THEN Built(RecursionError, NoElement)
    ELSE Children(h, n, depth,
                  AttrLoop(h, n,
                           IF "name" \in model_fields(h[n].cls)
                              /\ "name" \notin Range(attributes(h[n].cls))
                           THEN Append(attributes(h[n].cls), "name")
                           ELSE attributes(h[n].cls),
                           1, <<>>, depth))

\* base.py: XMLModel.to_xml
to_xml(h, n, depth) ==
    IF depth = 0 THEN Built(RecursionError, NoElement)
    ELSE Children(h, n, depth, AttrLoop(h, n, attributes(h[n].cls), 1, <<>>, depth))

----------------------------------------------------------------------------
(* Construction and its validators *)

\* the validator that lets every instance through
enforce_exclusive_groups_off(cls, fields) == NoError

\* base.py: XMLModel.enforce_exclusive_groups
enforce_exclusive_groups(cls, fields) ==
    LET groups == __exclusive_groups__(cls)
        count(g) == Cardinality({i \in DOMAIN groups[g] : fields[groups[g][i]] # None})
        bad == {g \in DOMAIN groups : count(g) > 1}
    IN  IF bad = {} THEN NoError
        ELSE Error("ValueError", "Only one of the group may be specified", cls,
                   groups[CHOOSE g \in bad : \A j \in bad : g <= j])

\* inertial.py: Inertial.inertia_matrix, as <<xx, yy, zz, xy, xz, yz>> in tenths
inertia_matrix(fields) ==
    IF fields["fullinertia"] = None
    THEN LET d == fields["diaginertia"].e IN <<d[1].n, d[2].n, d[3].n, 0, 0, 0>>
    ELSE LET f == fields["fullinertia"].e IN [i \in 1..6 |-> f[i].n]

\* all eigenvalues of the symmetric matrix are positive (leading minors)
PositiveDefinite(m) ==
    /\ m[1] > 0
    /\ m[1] * m[2] - m[4] * m[4] > 0
    /\ m[1] * (m[2] * m[3] - m[6] * m[6]) - m[4] * (m[4] * m[3] - m[6] * m[5])
         + m[5] * (m[4] * m[6] - m[2] * m[5]) > 0

\* the validator without its rule that one inertia must be given
validate_inertia_physics_optional(cls, fields) ==
    IF fields["diaginertia"] = None /\ fields["fullinertia"] = None
    THEN NoError
    ELSE IF fields["diaginertia"] # None /\ fields["fullinertia"] # None
    THEN Error("ValueError", "Only one of diaginertia or fullinertia may be specified", cls, <<>>)
    ELSE IF ~PositiveDefinite(inertia_matrix(fields))
    THEN Error("ValueError", "Inertia matrix must be positive definite", cls, <<>>)
    ELSE NoError

\* inertial.py: Inertial.validate_inertia_physics
validate_inertia_physics(cls, fields) ==
    IF fields["diaginertia"] = None /\ fields["fullinertia"] = None
    THEN Error("ValueError", "Either diaginertia or fullinertia must be specified", cls, <<>>)
    ELSE IF fields["diaginertia"] # None /\ fields["fullinertia"] # None
    THEN Error("ValueError", "Only one of diaginertia or fullinertia may be specified", cls, <<>>)
    ELSE IF ~PositiveDefinite(inertia_matrix(fields))
    THEN Error("ValueError", "Inertia matrix must be positive definite", cls, <<>>)
    ELSE NoError

\* geom.py: the dict `expected` of Geom.validate_vectors
expected ==
    (SPHERE :> 1) @@ (CAPSULE :> 2) @@ (CYLINDER :> 2)
        @@ (BOX :> 3) @@ (ELLIPSOID :> 3) @@ (PLANE :> 3)
        @@ (MESH :> 3) @@ (SDF :> 3)

\* geom.py: Geom.validate_vectors; the error detail holds the lengths the
\* message names
validate_vectors(cls, fields) ==
    IF fields["rgba"] # None /\ Len(fields["rgba"].e) # 4
    THEN Error("ValueError", "geom.rgba must be length 4", cls, <<>>)
    ELSE IF fields["pos"] # None /\ Len(fields["pos"].e) # 3
    THEN Error("ValueError", "geom.pos must be length 3", cls, <<>>)
    ELSE IF fields["size"] = None THEN NoError
    ELSE IF fields["type"] \notin DOMAIN expected
    THEN Error("KeyError", "", cls, <<>>)
    ELSE IF fields["size"].k = "tuple"
            /\ Len(fields["size"].e) # expected[fields["type"]]
    THEN IF fields["type"] = SPHERE
         THEN Error("TypeError", "geom.size must be a float, got a sequence", cls,
                    <<Len(fields["size"].e)>>)
         ELSE Error("ValueError", "geom.size must have length", cls,
                    <<expected[fields["type"]], Len(fields["size"].e)>>)
    ELSE NoError

RunValidator(name, cls, fields) ==
    CASE name = "enforce_exclusive_groups" -> enforce_exclusive_groups(cls, fields)
      [] name = "validate_inertia_physics" -> validate_inertia_physics(cls, fields)
      [] name = "validate_vectors" -> validate_vectors(cls, fields)

\* pydantic runs the "after" validators in order and stops at the first error
RECURSIVE RunValidators(_, _, _)
RunValidators(names, cls, fields) ==
    IF names = <<>> THEN NoError
    ELSE LET err == RunValidator(Head(names), cls, fields)
         IN  IF err # NoError THEN err ELSE RunValidators(Tail(names), cls, fields)

\* the nodes alive whose class is one of `holds`
Refs(h, holds) == {i \in DOMAIN h : h[i].cls \in holds}

NodeValues(fd, h) ==
    IF fd.many
    THEN {PyList(q) : q \in SeqsUpTo({NodeRef(i) : i \in Refs(h, fd.holds)}, MaxList)}
            \ {PyList(<<>>)}
    ELSE {NodeRef(i) : i \in Refs(h, fd.holds)}

\* what a caller may pass for a field: a sample value, or live nodes
KwargDomain(fd, h) == fd.samples \cup NodeValues(fd, h)

\* the scalar values a caller may assign to a field of a live node
AssignDomain(fd) == ({fd.default} \ {Missing}) \cup fd.samples

\* every choice of keyword arguments for the fields fds[i..]: each field is
\* either passed a value or left out
KwargsWith(fd, h, rests) ==
    UNION {{rest} \cup {(fd.name :> v) @@ rest : v \in KwargDomain(fd, h)} :
              rest \in rests}

RECURSIVE Kwargs(_, _, _)
Kwargs(fds, i, h) ==
    IF i > Len(fds) THEN {<<>>}
    ELSE KwargsWith(fds[i], h, Kwargs(fds, i + 1, h))

\* the required fields the caller left out
MissingRequired(cls, kwargs) ==
    {fd.name : fd \in {g \in Range(FieldDescs(cls)) :
                          g.default = Missing /\ g.name \notin DOMAIN kwargs}}

\* the field values after defaulting
RECURSIVE PopulateFrom(_, _, _)
PopulateFrom(fds, i, kwargs) ==
    IF i > Len(fds) THEN <<>>
    ELSE (fds[i].name :> (IF fds[i].name \in DOMAIN kwargs THEN kwargs[fds[i].name]
                                                            ELSE fds[i].default))
            @@ PopulateFrom(fds, i + 1, kwargs)

\* the field values had the validators run before defaulting: a field the
\* caller left out is still unset
Populate_before_defaults(cls, kwargs) ==
    [f \in model_fields(cls) |-> IF f \in DOMAIN kwargs THEN kwargs[f] ELSE None]

Populate(cls, kwargs) == PopulateFrom(FieldDescs(cls), 1, kwargs)

----------------------------------------------------------------------------
(* pydantic's JSON dump and validation, as the library's classes use them.  *)
(* A JSON object and an instance given by value are insertion-ordered lists *)
(* of items.                                                                *)

Item(key, value) == Val("item", 0, <<key>>, <<>>, <<value>>)
JsonObject(items) == Val("dict", 0, <<>>, <<>>, items)
ModelValue(cls, items) == Val("model", 0, <<cls>>, <<>>, items)
\* what validation yields in place of a value it rejects
Invalid == Val("invalid", 0, <<>>, <<>>, <<>>)

is_number(v) == v.k \in {"int", "float"}
HasItem(obj, key) == \E i \in DOMAIN obj.e : obj.e[i].s = <<key>>
ItemOf(obj, key) == obj.e[CHOOSE i \in DOMAIN obj.e : obj.e[i].s = <<key>>].e[1]

\* the annotation of a field, as far as validation looks at it
Ann(kind, lit, len, optional) ==
    [kind |-> kind, lit |-> lit, len |-> len, optional |-> optional]
LiteralOf(member) == Ann("literal", member, 0, FALSE)
VecOf(len, optional) == Ann("ndarray", None, len, optional)
FloatOf(optional) == Ann("float", None, 0, optional)
\* Optional[Orientation]: Annotated[Quat | ..., Field(discriminator="type")]
UnionOf(optional) == Ann("union", None, 0, optional)
AnyOf == Ann("any", None, 0, TRUE)

\* the annotations of the fields that the sample values set
Annotation(cls, field) ==
    CASE field = "type" /\ cls = "Quat" -> LiteralOf(QUAT)
      [] field = "type" /\ cls = "AxisAngle" -> LiteralOf(AXISANGLE)
      [] field = "type" /\ cls = "Euler" -> LiteralOf(EULER)
      [] field = "type" /\ cls = "XYAxes" -> LiteralOf(XYAXES)
      [] field = "type" /\ cls = "ZAxis" -> LiteralOf(ZAXIS)
      [] field = "type" /\ cls = "GeomSphere" -> LiteralOf(SPHERE)
      [] field = "quat" /\ cls = "Quat" -> VecOf(4, FALSE)
      [] field = "axisangle" /\ cls = "AxisAngle" -> VecOf(4, FALSE)
      [] field = "euler" /\ cls = "Euler" -> VecOf(3, FALSE)
      [] field = "xyaxes" /\ cls = "XYAxes" -> VecOf(6, FALSE)
      [] field = "zaxis" /\ cls = "ZAxis" -> VecOf(3, FALSE)
      [] field \in {"quat", "euler"} /\ cls \in {"GeomBase", "GeomSphere"}
            -> VecOf(3, TRUE)
      [] field = "size" /\ cls = "GeomSphere" -> FloatOf(TRUE)
      [] field = "pos" /\ cls = "Inertial" -> VecOf(3, FALSE)
      [] field = "orientation" /\ cls = "Inertial" -> UnionOf(TRUE)
      [] field = "mass" /\ cls = "Inertial" -> FloatOf(FALSE)
      [] field = "diaginertia" /\ cls = "Inertial" -> VecOf(3, TRUE)
      [] field = "fullinertia" /\ cls = "Inertial" -> VecOf(6, TRUE)
      [] OTHER -> AnyOf

\* model_config = {"extra": "forbid"} of GeomBase; pydantic ignores extra
\* keys otherwise
ExtraForbidden(cls) == "GeomBase" \in Range(Mro(cls))

\* JSON-mode serialization of a value that is no model: a StrEnum member
\* gives its value, an array or tuple gives a list
to_jsonable(value) ==
    IF value.k = "enum" THEN PyStr(value.s)
    ELSE IF value.k \in {"ndarray", "tuple"} THEN PyList(value.e)
    ELSE value

RECURSIVE DumpFields(_, _, _, _, _, _)
RECURSIVE DumpList(_, _, _, _, _)

\* model_dump of the instance heap[n]
model_dump(h, n, exclude_none) ==
    JsonObject(DumpFields(h, n, FieldDescs(h[n].cls), 1, exclude_none, <<>>))

DumpValue(h, value, exclude_none) ==
    IF is_xmlmodel(value) THEN model_dump(h, value.n, exclude_none)
    ELSE IF is_list(value) THEN PyList(DumpList(h, value.e, 1, exclude_none, <<>>))
    ELSE to_jsonable(value)

DumpList(h, items, j, exclude_none, acc) ==
    IF j > Len(items) THEN acc
    ELSE DumpList(h, items, j + 1, exclude_none,
                  Append(acc, DumpValue(h, items[j], exclude_none)))

\* a dump that leaves out the fields that hold their default
DumpItem_exclude_defaults(h, fd, value, exclude_none, acc) ==
    IF (exclude_none /\ value = None) \/ value = fd.default THEN acc
    ELSE Append(acc, Item(fd.name, DumpValue(h, value, exclude_none)))

\* one field of the dump: every field is dumped, whether or not the caller
\* passed it, except a None under exclude_none
DumpItem(h, fd, value, exclude_none, acc) ==
    IF exclude_none /\ value = None THEN acc
    ELSE Append(acc, Item(fd.name, DumpValue(h, value, exclude_none)))

DumpFields(h, n, fds, i, exclude_none, acc) ==
    IF i > Len(fds) THEN acc
    ELSE DumpFields(h, n, fds, i + 1, exclude_none,
                    DumpItem(h, fds[i], h[n].fields[fds[i].name], exclude_none, acc))

RECURSIVE ValidateFields(_, _, _, _, _, _)

\* the fields of a validated instance as the validators see them
FieldsOf(cls, items) ==
    [f \in model_fields(cls) |->
        items[CHOOSE i \in DOMAIN items : items[i].s = <<f>>].e[1]]

\* the instance, unless one of the model validators raises
AfterValidators(cls, items) ==
    IF \E name \in Range(Validators(cls)) :
          RunValidator(name, cls, FieldsOf(cls, items)) # NoError
    THEN Invalid ELSE ModelValue(cls, items)

Validated(cls, obj, items) ==
    IF \E i \in DOMAIN items : items[i].e[1] = Invalid THEN Invalid
    ELSE IF ExtraForbidden(cls)
            /\ \E i \in DOMAIN obj.e : obj.e[i].s[1] \notin model_fields(cls)
    THEN Invalid
    ELSE AfterValidators(cls, items)

\* cls.model_validate(obj): each field is validated against its annotation,
\* a missing key takes the default, then the model validators run
model_validate(cls, obj, depth) ==
    IF obj.k # "dict" \/ depth = 0 THEN Invalid
    ELSE CHOOSE value \in {Validated(cls, obj, items) :
                               items \in {ValidateFields(cls, obj, FieldDescs(cls), 1, depth, <<>>)}} : TRUE

\* the union takes the first variant, whatever the discriminator says
validate_union_first(holds, obj, depth) ==
    IF obj.k # "dict" THEN Invalid
    ELSE model_validate("Quat", obj, depth - 1)

\* a discriminated union: the variant whose Literal `type` is the object's
\* "type"; no tag or an unknown tag is an error
validate_union(holds, obj, depth) ==
    IF obj.k # "dict" \/ ~HasItem(obj, "type") THEN Invalid
    ELSE LET variants == {c \in holds :
                             /\ Annotation(c, "type").kind = "literal"
                             /\ PyStr(Annotation(c, "type").lit.s) = ItemOf(obj, "type")}
         IN  IF variants = {} THEN Invalid
             ELSE model_validate(CHOOSE c \in variants : TRUE, obj, depth - 1)

\* a JSON value against an annotation
validate_field(ann, fd, j, depth) ==
    IF j = None THEN (IF ann.optional THEN None ELSE Invalid)
    ELSE CASE ann.kind = "literal" ->
                IF j = PyStr(ann.lit.s) THEN ann.lit ELSE Invalid
           [] ann.kind = "ndarray" ->
                IF is_list(j) /\ Len(j.e) = ann.len /\ \A i \in DOMAIN j.e : is_number(j.e[i])
                THEN NdArray(j.e) ELSE Invalid
           [] ann.kind = "float" ->
                IF j.k = "float" THEN j
                ELSE IF j.k = "int" THEN PyFloat(10 * j.n) ELSE Invalid
           [] ann.kind = "union" -> validate_union(fd.holds, j, depth)
           [] OTHER -> j

FieldValue(cls, obj, fd, depth) ==
    IF HasItem(obj, fd.name)
    THEN validate_field(Annotation(cls, fd.name), fd, ItemOf(obj, fd.name), depth)
    ELSE IF fd.default = Missing THEN Invalid ELSE fd.default

\* the validated items, in field order; a rejected field holds Invalid
ValidateFields(cls, obj, fds, i, depth, acc) ==
    IF i > Len(fds) THEN acc
    ELSE ValidateFields(cls, obj, fds, i + 1, depth,
                        Append(acc, Item(fds[i].name, FieldValue(cls, obj, fds[i], depth))))

----------------------------------------------------------------------------
(* The operations *)

\* the state before the first class statement of `program` runs
InitWith(program) ==
    /\ pending = program
    /\ classes = {}
    /\ checks = [c \in Range(program) |-> 0]
    /\ decls = ClassTable
    /\ heap = <<>>
    /\ result = NoResult

\* the next class statement runs: pydantic builds the class and calls
\* __pydantic_init_subclass__; if that raises, the name is never bound
DefineType ==
    /\ pending # <<>>
    /\ LET cls == Head(pending)
           err == __pydantic_init_subclass__(cls)
       IN  /\ pending' = Tail(pending)
           /\ checks' = [checks EXCEPT ![cls] = @ + 1]
           /\ classes' = IF err = NoError THEN classes \cup {cls} ELSE classes
           /\ result' = [NoResult EXCEPT !.op = "define", !.cls = cls, !.err = err]
    /\ UNCHANGED <<decls, heap>>

\* cls(**kwargs), once the program's class statements have run: pydantic
\* checks and populates the fields, then the validators run
Construct(cls, kwargs) ==
    /\ pending = <<>>
    /\ cls \in classes
    /\ Len(heap) < MaxNodes
    /\ LET fields == Populate(cls, kwargs)
           err == IF MissingRequired(cls, kwargs) # {}
                  THEN Error("ValidationError", "Field required", cls, <<>>)
                  ELSE RunValidators(Validators(cls), cls, fields)
       IN  /\ heap' = IF err = NoError
                      THEN Append(heap, [cls |-> cls, fields |-> fields])
                      ELSE heap
           /\ result' = [NoResult EXCEPT !.op = "construct", !.cls = cls,
                            !.node = IF err = NoError THEN Len(heap) + 1 ELSE 0,
                            !.args = kwargs, !.err = err]
    /\ UNCHANGED <<pending, classes, checks, decls>>

\* node.field = value: XMLModel sets no validate_assignment, nothing runs
Assign(n, field, value) ==
    /\ n \in DOMAIN heap
    /\ heap[n].fields[field] # value
    /\ heap' = [heap EXCEPT ![n].fields[field] = value]
    /\ result' = [NoResult EXCEPT !.op = "assign"]
    /\ UNCHANGED <<pending, classes, checks, decls>>

\* a to_xml that empties the lists of the node it has serialized
Serialize_draining(n) ==
    /\ n \in DOMAIN heap
    /\ LET built == to_xml(heap, n, RecursionLimit)
       IN  result' = [NoResult EXCEPT !.op = "to_xml", !.cls = heap[n].cls,
                         !.node = n, !.err = built.err, !.el = built.el]
    /\ heap' = [heap EXCEPT ![n].fields =
                    [f \in DOMAIN @ |-> IF is_list(@[f]) THEN PyList(<<>>) ELSE @[f]]]
    /\ UNCHANGED <<pending, classes, checks, decls>>

\* node.to_xml()
Serialize(n) ==
    /\ n \in DOMAIN heap
    /\ LET built == to_xml(heap, n, RecursionLimit)
       IN  result' = [NoResult EXCEPT !.op = "to_xml", !.cls = heap[n].cls,
                         !.node = n, !.err = built.err, !.el = built.el]
    /\ UNCHANGED <<pending, classes, checks, decls, heap>>

\* node.model_dump_json(exclude_none=...)
Dump(n, exclude_none) ==
    /\ n \in DOMAIN heap
    /\ result' = [NoResult EXCEPT !.op = "model_dump_json", !.cls = heap[n].cls,
                     !.node = n, !.args = ("exclude_none" :> PyBool(exclude_none)),
                     !.val = model_dump(heap, n, exclude_none)]
    /\ UNCHANGED <<pending, classes, checks, decls, heap>>

\* type(node).model_validate_json(text), on the text just dumped
Validate ==
    /\ result.op = "model_dump_json"
    /\ \E value \in {model_validate(result.cls, result.val, RecursionLimit)} :
          result' = [result EXCEPT !.op = "model_validate_json", !.val = value,
                        !.err = IF value = Invalid
                                THEN Error("ValidationError", "", result.cls, <<>>)
                                ELSE NoError]
    /\ UNCHANGED <<pending, classes, checks, decls, heap>>

Next ==
    \/ DefineType
    \/ \E cls \in classes : \E kwargs \in Kwargs(FieldDescs(cls), 1, heap) :
          Construct(cls, kwargs)
    \/ \E n \in DOMAIN heap : \E fd \in Range(FieldDescs(heap[n].cls)) :
          \E value \in AssignDomain(fd) : Assign(n, fd.name, value)
    \/ \E n \in DOMAIN heap : Serialize(n)

\* a client program with flattened helper nodes and two faulty class statements
FlattenProgram == <<"Leaf", "Kids", "BadAttr", "Parent", "Tagged", "BadChild">>

\* the library's Inertial and Body
TreeProgram == <<"Inertial", "Body">>

\* a client type with an exclusive group, and the library's Inertial
GroupProgram == <<"Pair", "Inertial">>

Init == InitWith(FlattenProgram)
Spec == Init /\ [][Next]_vars

InitTree == InitWith(TreeProgram)
SpecTree == InitTree /\ [][Next]_vars

\* client types whose field names carry the reserved-word escape suffix
SuffixProgram == <<"Styled", "Frame">>

InitGroup == InitWith(GroupProgram)
SpecGroup == InitGroup /\ [][Next]_vars

InitSuffix == InitWith(SuffixProgram)
SpecSuffix == InitSuffix /\ [][Next]_vars

\* client types that flatten helper nodes next to direct attributes, inside
\* other flattened nodes and side by side
CollisionProgram == <<"Leaf", "Parent", "Twin">>

InitCollision == InitWith(CollisionProgram)
SpecCollision == InitCollision /\ [][Next]_vars

\* a client type with a class-level constant among its attributes, and a
\* subclass of it
SchemaProgram == <<"Leaf", "Tagged", "Derived">>

InitSchema == InitWith(SchemaProgram)
SpecSchema == InitSchema /\ [][Next]_vars

\* a client type whose attribute fields are given empty values
EmptyProgram == <<"Listed">>

InitEmpty == InitWith(EmptyProgram)
SpecEmpty == InitEmpty /\ [][Next]_vars

\* a client type whose exclusive group has a field with a default
DefaultProgram == <<"Preset">>

InitDefault == InitWith(DefaultProgram)
SpecDefault == InitDefault /\ [][Next]_vars

\* the library's Pos helper and Body, which holds one in `pos`
PosProgram == <<"Pos", "Body">>

InitPos == InitWith(PosProgram)
SpecPos == InitPos /\ [][Next]_vars

\* the library's FreeJoint and WorldBody
WorldProgram == <<"FreeJoint", "WorldBody">>

InitWorld == InitWith(WorldProgram)
SpecWorld == InitWorld /\ [][Next]_vars

\* the library's geoms
GeomProgram == <<"GeomBase", "GeomSphere">>

InitGeom == InitWith(GeomProgram)
SpecGeom == InitGeom /\ [][Next]_vars

----------------------------------------------------------------------------
(* The formatter on its own: calls of _format_value on sample values *)

Numbers == {PyInt(0), PyInt(1), PyInt(2), PyInt(3), PyInt(5), PyInt(12),
            PyInt(-1), PyFloat(1), PyFloat(5), PyFloat(50)}

Texts == {<<>>, <<"a">>, <<"a", "b">>, <<"1", " ", "2">>, <<"t", "r", "u", "e">>}

RK4 == PyEnum(<<"R", "K", "4">>, <<"R", "K", "4">>)

FormatInputs ==
    {PyBool(TRUE), PyBool(FALSE), None, SPHERE, RK4}
      \cup Numbers
      \cup {PyStr(t) : t \in Texts}
      \cup {PyTuple(e) : e \in SeqsUpTo(Numbers, MaxLen)}
      \cup {PyList(e) : e \in SeqsUpTo(Numbers \cup {PyBool(TRUE)}, MaxLen - 1)}
      \cup {NdArray(e) : e \in SeqsUpTo(Numbers, MaxLen - 1)}

\* a value some caller is about to hand to the formatter
InitFmt ==
    /\ pending = <<>>
    /\ classes = {}
    /\ checks = <<>>
    /\ decls = ClassTable
    /\ heap = <<>>
    /\ \E v \in FormatInputs : result = [NoResult EXCEPT !.op = "input", !.val = v]

FormatCall ==
    /\ result.op = "input"
    /\ result' = [result EXCEPT !.op = "format", !.out = _format_value(result.val)]
    /\ UNCHANGED <<pending, classes, checks, decls, heap>>

NextFmt == FormatCall

SpecFmt == InitFmt /\ [][NextFmt]_vars

----------------------------------------------------------------------------
(* Dumping the library's discriminated variants to JSON and validating back *)

MaxJsonNodes == 2

\* the orientation variants, a geom variant and a type that holds an
\* orientation
JsonProgram ==
    <<"OrientationBase", "Quat", "AxisAngle", "Euler", "XYAxes", "ZAxis",
      "GeomBase", "GeomSphere", "Inertial">>

InitJson == InitWith(JsonProgram)

NextJson ==
    \/ DefineType
    \/ /\ Len(heap) < MaxJsonNodes
       /\ \E cls \in classes : \E kwargs \in Kwargs(FieldDescs(cls), 1, heap) :
             Construct(cls, kwargs)
    \/ \E n \in DOMAIN heap : \E exclude_none \in BOOLEAN : Dump(n, exclude_none)
    \/ Validate

SpecJson == InitJson /\ [][NextJson]_vars

----------------------------------------------------------------------------
(* Node graphs: callers that also assign nodes and lists of nodes to fields *)

\* most nodes alive at once in a node graph
MaxGraphNodes == 2

\* a client type that flattens another node of its own type, and one that
\* holds child nodes of its own type the way the library's Body does
GraphProgram == <<"Parent", "Nest">>

InitGraph == InitWith(GraphProgram)

NextGraph ==
    \/ DefineType
    \/ /\ Len(heap) < MaxGraphNodes
       /\ \E cls \in classes : \E kwargs \in Kwargs(FieldDescs(cls), 1, heap) :
             Construct(cls, kwargs)
    \/ \E n \in DOMAIN heap : \E fd \in Range(FieldDescs(heap[n].cls)) :
          \E value \in AssignDomain(fd) \cup NodeValues(fd, heap) :
             Assign(n, fd.name, value)
    \/ \E n \in DOMAIN heap : Serialize(n)

SpecGraph == InitGraph /\ [][NextGraph]_vars

----------------------------------------------------------------------------
(* Fields that a type does not list *)

\* the library's Joint, which lists no attribute, and WorldBody, which lists
\* no attribute and leaves `inertial` and `joints` out of its children
ListingProgram == <<"Joint", "WorldBody">>

InitListing == InitWith(ListingProgram)
SpecListing == InitListing /\ [][Next]_vars

----------------------------------------------------------------------------
(* Geoms of every type and size *)

\* most geoms alive at once
MaxSizeNodes == 1

\* the Geom of mjcf/mujoco_attr/geom.py
SizeProgram == <<"Geom">>

InitSize == InitWith(SizeProgram)

NextSize ==
    \/ DefineType
    \/ /\ Len(heap) < MaxSizeNodes
       /\ \E cls \in classes : \E kwargs \in Kwargs(FieldDescs(cls), 1, heap) :
             Construct(cls, kwargs)
    \/ \E n \in DOMAIN heap : \E fd \in Range(FieldDescs(heap[n].cls)) :
          \E value \in AssignDomain(fd) : Assign(n, fd.name, value)
    \/ \E n \in DOMAIN heap : Serialize(n)

SpecSize == InitSize /\ [][NextSize]_vars

----------------------------------------------------------------------------
(* Claims about serialization of attributes (checked under Spec) *)

Serialized == result.op = "to_xml" /\ result.err = NoError
Keys(attrib) == {attrib[i].k : i \in DOMAIN attrib}
KeyIndex(attrib, k) == CHOOSE i \in DOMAIN attrib : attrib[i].k = k

\* the XML attribute names that declared attribute i of node n gives rise to
EmittedKeys(h, n, i) ==
    LET field == attributes(h[n].cls)[i]
        value == getattr(h, n, field)
    IN  IF value = None THEN {}
        ELSE IF is_xmlmodel(value)
             THEN Keys(_collect_xml_attributes(h, value.n, RecursionLimit).attrs)
             ELSE {rstrip(Chars(field))}

\* C1: to_xml emits attributes in the order of the declared `attributes`
\* tuple: whatever declared position i gives rise to comes before whatever a
\* later position j gives rise to, a flattened node's keys standing at the
\* position of the field that holds the node.
C1_DeclaredOrder ==
    Serialized =>
        \A i, j \in DOMAIN attributes(result.cls) :
            i < j =>
                \A ki \in EmittedKeys(heap, result.node, i) :
                \A kj \in EmittedKeys(heap, result.node, j) :
                    /\ ki \in Keys(result.el.attrib)
                    /\ kj \in Keys(result.el.attrib)
                    /\ KeyIndex(result.el.attrib, ki) < KeyIndex(result.el.attrib, kj)

\* attribute i of node n holds a childless node whose collected keys include
\* the XML name of the directly formatted attribute j of the same node
FlatDirectCollision(h, n, i, j) ==
    LET vi == getattr(h, n, attributes(h[n].cls)[i])
        vj == getattr(h, n, attributes(h[n].cls)[j])
    IN  /\ i # j
        /\ is_xmlmodel(vi)
        /\ vj # None /\ ~is_xmlmodel(vj)
        /\ _collect_xml_attributes(h, vi.n, RecursionLimit).err = NoError
        /\ rstrip(Chars(attributes(h[n].cls)[j])) \in EmittedKeys(h, n, i)

\* C5: when a flattened node and a direct attribute of the same parent give
\* the same XML attribute name, to_xml raises, whichever of the two fields is
\* declared first.
C5_CollisionRaises ==
    (result.op = "to_xml" /\
     \E i, j \in DOMAIN attributes(result.cls) :
         FlatDirectCollision(heap, result.node, i, j))
        => result.err # NoError

\* the nodes that serializing n flattens: those held, directly or through
\* other flattened nodes, in non-absent attribute fields
RECURSIVE FlatReach(_, _, _)
FlatReach(h, n, fuel) ==
    LET direct == {getattr(h, n, attributes(h[n].cls)[i]).n :
                     i \in {k \in DOMAIN attributes(h[n].cls) :
                              is_xmlmodel(getattr(h, n, attributes(h[n].cls)[k]))}}
    IN  IF fuel = 0 THEN direct
        ELSE direct \cup UNION {FlatReach(h, m, fuel - 1) : m \in direct}

\* C6: flattening a node whose type declares children raises, in to_xml and
\* in nested flattening, whether or not any of its child fields is set.
C6_FlattenChildrenForbidden ==
    (result.op = "to_xml" /\
     \E m \in FlatReach(heap, result.node, MaxNodes) : children(heap[m].cls) # <<>>)
        => /\ result.err.exc = "ValueError"
           /\ result.el = NoElement

C6_Witness ==
    /\ result.op = "to_xml"
    /\ result.err.msg = "has children and cannot be flattened"
    /\ \E m \in FlatReach(heap, result.node, MaxNodes) :
          /\ heap[m].cls = "Kids"
          /\ heap[m].fields["item"] = None
          /\ m \notin {getattr(heap, result.node, attributes(result.cls)[i]).n :
                          i \in DOMAIN attributes(result.cls)}

\* the declared names of c that are neither a field nor bound in its body
Unresolved(c) ==
    (Range(attributes(c)) \cup Range(children(c)))
        \ (model_fields(c) \cup ClassDecl(c).body)

\* C7: a class statement whose `attributes` or `children` names something
\* that is neither a field nor a class-level constant fails when it runs, with
\* a TypeError naming the type and the name; no such type is ever there to be
\* instantiated, and instantiating never runs the check again.
C7_SchemaCheckAtDefinition ==
    /\ result.op = "define" =>
          /\ (Unresolved(result.cls) # {}) <=> (result.err.exc = "TypeError")
          /\ result.err # NoError =>
                /\ result.err.cls = result.cls
                /\ result.err.detail[1] \in Unresolved(result.cls)
                /\ result.cls \notin classes
          /\ result.err = NoError => result.cls \in classes
    /\ \A c \in classes : Unresolved(c) = {}
    /\ \A n \in DOMAIN heap : heap[n].cls \in classes
    /\ \A c \in DOMAIN checks : checks[c] = (IF c \in Range(pending) THEN 0 ELSE 1)

C7_Witness ==
    /\ result.op = "define"
    /\ result.cls = "BadChild"
    /\ result.err.exc = "TypeError"
    /\ result.err.detail = <<"wheels">>
    /\ heap = <<>>

\* `name` is a model field of c, inherited ones included, or a class-level
\* constant that c.name resolves to
Resolves(c, name) == name \in model_fields(c) \/ ClassConst(c, name) # None

\* C24: a class statement succeeds, and the type is there afterwards with no
\* instance made, whenever every name of its `attributes` and `children`
\* resolves to a field of the type or to a class-level constant on it.
C24_ResolvedSchemaAccepted ==
    (/\ result.op = "define"
     /\ \A name \in Range(attributes(result.cls)) \cup Range(children(result.cls)) :
           Resolves(result.cls, name))
        => /\ result.err = NoError
           /\ result.cls \in classes
           /\ heap = <<>>

\* C8 as stated: the XML name of a declared attribute whose value is None is
\* not a key of the element.
C8_UnsetNameAbsent ==
    Serialized =>
        \A i \in DOMAIN attributes(result.cls) :
            getattr(heap, result.node, attributes(result.cls)[i]) = None =>
                rstrip(Chars(attributes(result.cls)[i])) \notin Keys(result.el.attrib)

\* the XML names of the non-absent attribute fields of node n, those of a
\* flattened node being the names of its own non-absent attribute fields
RECURSIVE NonAbsentKeys(_, _, _)
NonAbsentKeys(h, n, fuel) ==
    UNION {LET value == getattr(h, n, attributes(h[n].cls)[i])
           IN  IF value = None THEN {}
               ELSE IF is_xmlmodel(value)
                    THEN (IF fuel = 0 THEN {} ELSE NonAbsentKeys(h, value.n, fuel - 1))
                    ELSE {rstrip(Chars(attributes(h[n].cls)[i]))} :
           i \in DOMAIN attributes(h[n].cls)}

\* C8, amended: a declared attribute whose value is None contributes nothing
\* to the element: the keys of the element are exactly the XML names of the
\* non-absent attribute fields of the node and of the nodes it flattens, so
\* the name of an unset field is a key only if another, non-absent declared
\* attribute gives rise to the same name; no value is the text "None".
C8_UnsetEmitsNothing ==
    Serialized =>
        /\ Keys(result.el.attrib) = NonAbsentKeys(heap, result.node, MaxNodes)
        /\ \A i \in DOMAIN result.el.attrib :
              result.el.attrib[i].v # <<"N", "o", "n", "e">>

C8_Witness ==
    /\ Serialized
    /\ result.cls = "Parent"
    /\ heap[result.node].fields["name"] = None
    /\ heap[result.node].fields["pos"] = None
    /\ Keys(result.el.attrib) = {<<"x">>}

----------------------------------------------------------------------------
(* Claims about empty values (checked under SpecEmpty) *)

\* C25: to_xml skips a declared attribute whose value is unset or empty; the
\* returned element never carries an attribute whose value is the empty string.
C25_NoEmptyAttribute ==
    Serialized =>
        \A i \in DOMAIN result.el.attrib : result.el.attrib[i].v # <<>>

----------------------------------------------------------------------------
(* Claims about children (checked under SpecTree) *)

\* the nodes held in the child fields children(cls)[i..] of node n, in
\* declared order, a list contributing its items in list order
RECURSIVE ChildNodes(_, _, _)
ChildNodes(h, n, i) ==
    IF i > Len(children(h[n].cls)) THEN <<>>
    ELSE LET value == h[n].fields[children(h[n].cls)[i]]
             here == IF value = None THEN <<>>
                     ELSE IF is_list(value)
                          THEN [k \in DOMAIN Items(value) |-> Items(value)[k].n]
                          ELSE <<value.n>>
         IN  here \o ChildNodes(h, n, i + 1)

\* C2: the child elements of the element are those of the nodes held in the
\* child fields, in the order of the declared `children` tuple and, within a
\* list, in list order: one element per held node, none for an absent field.
C2_ChildOrder ==
    Serialized =>
        LET nodes == ChildNodes(heap, result.node, 1)
        IN  /\ Len(result.el.children) = Len(nodes)
            /\ \A k \in DOMAIN nodes :
                  result.el.children[k] = to_xml(heap, nodes[k], RecursionLimit).el

C2_Witness ==
    /\ Serialized
    /\ result.cls = "Body"
    /\ Len(Items(heap[result.node].fields["bodies"])) = 2
    /\ Len(result.el.children) = 2
    /\ result.el.children[1] # result.el.children[2]
    /\ result.el.children[1].attrib # <<>>

----------------------------------------------------------------------------
(* Claims about flattening collisions (checked under SpecCollision) *)

\* the XML attribute names emitted for node n before its declared attribute i
KeysBefore(h, n, i) == UNION {EmittedKeys(h, n, j) : j \in 1..(i - 1)}

\* attribute i of node n holds a node whose collected keys include a name
\* already emitted for n, by a direct field or by an earlier flattened node
FlattenCollisionAt(h, n, i) ==
    LET value == getattr(h, n, attributes(h[n].cls)[i])
    IN  /\ is_xmlmodel(value)
        /\ EmittedKeys(h, n, i) \cap KeysBefore(h, n, i) # {}

\* C23: when a key collected from a flattened node is already among the
\* attributes emitted so far for the target, in to_xml and in the nested
\* flattening of _collect_xml_attributes alike, a ValueError is raised and no
\* element is returned, so no earlier value is overwritten by the merge.
C23_FlattenCollisionRaises ==
    (result.op = "to_xml" /\
     \E m \in {result.node} \cup FlatReach(heap, result.node, MaxNodes) :
        \E i \in DOMAIN attributes(heap[m].cls) : FlattenCollisionAt(heap, m, i))
        => /\ result.err.exc = "ValueError"
           /\ result.el = NoElement

C23_Witness ==
    /\ result.op = "to_xml"
    /\ result.cls = "Twin"
    /\ FlattenCollisionAt(heap, result.node, 2)
    /\ result.err.msg = "Attribute collision while flattening"

----------------------------------------------------------------------------
(* Claims about exclusivity groups (checked under SpecGroup) *)

\* how many fields of group g of the type are non-absent in `fields`
SetInGroup(cls, g, fields) ==
    Cardinality({i \in DOMAIN __exclusive_groups__(cls)[g] :
                    fields[__exclusive_groups__(cls)[g][i]] # None})

\* a call cls(**kwargs) that passed every required field of a type with a group
GroupedCall ==
    /\ result.op = "construct"
    /\ __exclusive_groups__(result.cls) # <<>>
    /\ MissingRequired(result.cls, result.args) = {}

ExclusivityError(cls, g) ==
    Error("ValueError", "Only one of the group may be specified", cls,
          __exclusive_groups__(cls)[g])

\* C3 as stated: constructing with both fields of a group set fails with an
\* error naming the type and the group; with one or neither set it succeeds.
C3_OneOrNeitherSucceeds ==
    GroupedCall =>
        \A g \in DOMAIN __exclusive_groups__(result.cls) :
            IF SetInGroup(result.cls, g, Populate(result.cls, result.args)) > 1
            THEN result.err = ExclusivityError(result.cls, g)
            ELSE result.err = NoError

\* C3, amended: with both fields of a group set construction fails with the
\* exclusivity error naming the type and the group; with one or neither set
\* the exclusivity check passes, and construction succeeds unless a validator
\* of the type itself rejects the values.
C3_ExclusiveGroupAtConstruction ==
    GroupedCall =>
        LET fields == Populate(result.cls, result.args)
        IN  \A g \in DOMAIN __exclusive_groups__(result.cls) :
              IF SetInGroup(result.cls, g, fields) > 1
              THEN /\ result.err = ExclusivityError(result.cls, g)
                   /\ result.node = 0
              ELSE /\ result.err.msg # "Only one of the group may be specified"
                   /\ \/ /\ result.err = NoError
                         /\ result.node = Len(heap)
                         /\ heap[result.node] = [cls |-> result.cls, fields |-> fields]
                      \/ /\ ClassDecl(result.cls).validators # <<>>
                         /\ result.err =
                              RunValidators(ClassDecl(result.cls).validators,
                                            result.cls, fields)
                         /\ result.err # NoError

C3_Witness ==
    /\ GroupedCall
    /\ result.cls = "Pair"
    /\ DOMAIN result.args = {"a", "b"}
    /\ result.err = ExclusivityError("Pair", 1)

\* C4: whatever constructions and assignments came before, every live node
\* has at most one non-absent field in each exclusivity group of its type,
\* and to_xml never returns an element for a node that has more.
C4_ExclusiveGroupsHold ==
    /\ \A n \in DOMAIN heap :
          \A g \in DOMAIN __exclusive_groups__(heap[n].cls) :
              SetInGroup(heap[n].cls, g, heap[n].fields) <= 1
    /\ Serialized =>
          \A g \in DOMAIN __exclusive_groups__(result.cls) :
              SetInGroup(result.cls, g, heap[result.node].fields) <= 1

\* the call gave the field a value other than None
Given(field) == field \in DOMAIN result.args /\ result.args[field] # None

\* how many of diaginertia and fullinertia the call gave
InertiasGiven ==
    Cardinality({f \in {"diaginertia", "fullinertia"} : Given(f)})

\* C21: Inertial(...) succeeds only when exactly one of diaginertia and
\* fullinertia is given; with both given, and with neither given, the call
\* raises a construction error and no instance is made.
C21_ExactlyOneInertia ==
    (result.op = "construct" /\ result.cls = "Inertial") =>
        /\ result.err = NoError => InertiasGiven = 1
        /\ InertiasGiven # 1 =>
              /\ result.err.exc \in {"ValueError", "ValidationError"}
              /\ result.node = 0

C21_Witness ==
    /\ result.op = "construct"
    /\ result.cls = "Inertial"
    /\ MissingRequired("Inertial", result.args) = {}
    /\ InertiasGiven = 0
    /\ result.err.msg = "Either diaginertia or fullinertia must be specified"


----------------------------------------------------------------------------
(* Claims about defaults in exclusivity groups (checked under SpecDefault) *)

\* the value field f has once the call's arguments and the declared defaults
\* are in place
FinalValue(f) ==
    IF f \in DOMAIN result.args THEN result.args[f]
    ELSE FieldDesc(result.cls, f).default

\* the fields of group g of the constructed type whose final value is set
FinallySet(g) ==
    {i \in DOMAIN __exclusive_groups__(result.cls)[g] :
        FinalValue(__exclusive_groups__(result.cls)[g][i]) # None}

\* C26: the exclusivity check of a construction looks at the values the
\* instance has after assignment and defaulting: a group field the caller
\* left out counts as set when its default is not None, so giving another
\* field of the group fails; otherwise the check passes and the instance
\* holds the final values.
C26_DefaultsCountAsSet ==
    GroupedCall =>
        \A g \in DOMAIN __exclusive_groups__(result.cls) :
            IF Cardinality(FinallySet(g)) > 1
            THEN /\ result.err = ExclusivityError(result.cls, g)
                 /\ result.node = 0
            ELSE /\ result.err = NoError
                 /\ result.node = Len(heap)
                 /\ \A f \in model_fields(result.cls) :
                       heap[result.node].fields[f] = FinalValue(f)

C26_Witness ==
    /\ GroupedCall
    /\ result.cls = "Preset"
    /\ DOMAIN result.args = {"b"}
    /\ result.err = ExclusivityError("Preset", 1)

----------------------------------------------------------------------------
(* Claims about the node graph (checked under SpecGraph) *)

\* the nodes a value holds: the node itself, or the items of a list
NodesIn(value) ==
    IF is_xmlmodel(value) THEN {value.n}
    ELSE IF is_list(value)
    THEN {value.e[j].n : j \in {k \in DOMAIN value.e : is_xmlmodel(value.e[k])}}
    ELSE {}

\* the nodes held in the attribute and child fields of node n
HeldBy(h, n) ==
    UNION {NodesIn(getattr(h, n, f)) :
              f \in Range(attributes(h[n].cls)) \cup Range(children(h[n].cls))}

\* the nodes reached from n through at most fuel + 1 such fields
RECURSIVE Descendants(_, _, _)
Descendants(h, n, fuel) ==
    IF fuel = 0 THEN HeldBy(h, n)
    ELSE HeldBy(h, n) \cup UNION {Descendants(h, m, fuel - 1) : m \in HeldBy(h, n)}

\* C27: whatever constructions and assignments came before, no node is its
\* own descendant through child and flattened-attribute fields, and to_xml
\* never runs out of stack.
C27_NodeGraphIsATree ==
    /\ \A n \in DOMAIN heap : n \notin Descendants(heap, n, MaxGraphNodes)
    /\ result.op = "to_xml" => result.err # RecursionError

----------------------------------------------------------------------------
(* Claims about unlisted fields (checked under SpecListing) *)

\* the fields of class c that neither `attributes` nor `children` lists
Unlisted(c) == model_fields(c) \ (Range(attributes(c)) \cup Range(children(c)))

\* the heap in which the unlisted fields of node n hold None
WithoutUnlisted(h, n) ==
    [h EXCEPT ![n].fields =
        [f \in DOMAIN @ |-> IF f \in Unlisted(h[n].cls) THEN None ELSE @[f]]]

\* the nodes that the listed child fields of node n hold, one for each element
ListedChildren(h, n) ==
    {p \in Range(children(h[n].cls)) \X DOMAIN h :
        LET value == getattr(h, n, p[1])
        IN  \/ value = NodeRef(p[2])
            \/ is_list(value) /\ NodeRef(p[2]) \in Range(value.e)}

\* C30: to_xml emits an attribute or a child element only for the names in
\* the type's `attributes` and `children`: every key of the element arises from
\* a listed attribute, every child element from a node in a listed child
\* field, and the result, error or element, is the one the node gives with its
\* unlisted fields absent; a type that lists nothing, as Joint does, gives
\* an element with no attribute and no child, and no error.
C30_OnlyListedNamesEmitted ==
    result.op = "to_xml" =>
        LET n == result.node
            cls == heap[n].cls
            bare == to_xml(WithoutUnlisted(heap, n), n, RecursionLimit)
        IN  /\ result.err = bare.err /\ result.el = bare.el
            /\ result.err = NoError =>
                  /\ Keys(result.el.attrib) \subseteq
                        UNION {EmittedKeys(heap, n, i) : i \in DOMAIN attributes(cls)}
                  /\ (ListedChildren(heap, n) = {}) => result.el.children = <<>>
            /\ (attributes(cls) = <<>> /\ children(cls) = <<>>) =>
                  /\ result.err = NoError
                  /\ result.el.attrib = <<>> /\ result.el.children = <<>>

\* a Joint with fields set, serialized to an element without attributes
C30_Witness ==
    /\ result.op = "to_xml" /\ result.err = NoError
    /\ result.cls = "Joint"
    /\ heap[result.node].fields["name"] # None
    /\ heap[result.node].fields["type"] # None
    /\ result.el.attrib = <<>>

----------------------------------------------------------------------------
(* Claims about geom sizes (checked under SpecSize) *)

\* the number of sizes the claim gives for a geom type
RequiredCount(type) ==
    CASE type = SPHERE -> 1
      [] type \in {CAPSULE, CYLINDER} -> 2
      [] type \in {BOX, ELLIPSOID, PLANE,
                   MESH, SDF} -> 3
      [] OTHER -> 0

\* C29: Geom(type=..., size=...) with a tuple as size succeeds exactly when
\* the tuple has as many items as the type requires, and otherwise fails with
\* a construction error; with a float as size, and with no size, it succeeds
\* for every member of GeomType.
C29_SizeLengthChecked ==
    (result.op = "construct" /\ result.cls = "Geom") =>
        IF FinalValue("size").k = "tuple"
        THEN RequiredCount(FinalValue("type")) # 0 =>
                /\ (result.err = NoError) <=>
                      (Len(FinalValue("size").e) = RequiredCount(FinalValue("type")))
                /\ result.err # NoError =>
                      result.err.exc \in {"ValueError", "TypeError", "ValidationError"}
        ELSE result.err = NoError

----------------------------------------------------------------------------
(* Claims about attribute names (checked under SpecSuffix) *)

\* the name without one trailing escape suffix
StripOne(text) ==
    IF text # <<>> /\ text[Len(text)] = "_" THEN SubSeq(text, 1, Len(text) - 1)
    ELSE text

\* the name up to its last character that is not an underscore
StripAll(text) ==
    SubSeq(text, 1, CHOOSE i \in 0..Len(text) :
                        /\ i = 0 \/ text[i] # "_"
                        /\ \A j \in (i + 1)..Len(text) : text[j] = "_")

\* the fields of node n's declared attributes that hold a plain value
SetScalars(h, n) ==
    SelectSeq(attributes(h[n].cls),
              LAMBDA f : getattr(h, n, f) # None /\ ~is_xmlmodel(getattr(h, n, f)))

\* the node whose plain attributes the element of node n carries: the node
\* itself or, for a Frame, the Styled it flattens (0 when it holds none)
Carrier(h, n) ==
    IF h[n].cls = "Frame"
    THEN (IF h[n].fields["style"] = None THEN 0 ELSE h[n].fields["style"].n)
    ELSE n

\* C12 as stated: a field whose name ends with the escape suffix '_' is
\* emitted under its name with that one suffix removed, any other field under
\* its own name.
C12_OneSuffixRemoved ==
    Serialized =>
        LET c == Carrier(heap, result.node)
        IN  IF c = 0 THEN result.el.attrib = <<>>
            ELSE result.el.attrib =
                   [i \in DOMAIN SetScalars(heap, c) |->
                       [k |-> StripOne(Chars(SetScalars(heap, c)[i])),
                        v |-> _format_value(getattr(heap, c, SetScalars(heap, c)[i]))]]

\* C12, amended: to_xml and _collect_xml_attributes emit a field under its
\* name with every trailing '_' removed (class_ gives class, y__ gives y); a
\* name that does not end with '_' is emitted unchanged.
C12_TrailingUnderscoresRemoved ==
    Serialized =>
        LET c == Carrier(heap, result.node)
        IN  IF c = 0 THEN result.el.attrib = <<>>
            ELSE result.el.attrib =
                   [i \in DOMAIN SetScalars(heap, c) |->
                       [k |-> StripAll(Chars(SetScalars(heap, c)[i])),
                        v |-> _format_value(getattr(heap, c, SetScalars(heap, c)[i]))]]

C12_Witness ==
    /\ Serialized
    /\ result.cls = "Frame"
    /\ result.el.attrib = <<[k |-> <<"c", "l", "a", "s", "s">>, v |-> <<"a">>],
                            [k |-> <<"y">>, v |-> <<"1">>],
                            [k |-> <<"n", "a", "m", "e">>, v |-> <<"b">>]>>

----------------------------------------------------------------------------
(* Claims about flattened nodes (checked under Spec) *)

\* the key/value pairs of the non-absent declared attributes of node n, those
\* of the nodes it holds in attribute fields included
RECURSIVE OwnPairs(_, _, _)
OwnPairs(h, n, fuel) ==
    UNION {LET value == getattr(h, n, attributes(h[n].cls)[i])
           IN  IF value = None THEN {}
               ELSE IF is_xmlmodel(value)
                    THEN (IF fuel = 0 THEN {} ELSE OwnPairs(h, value.n, fuel - 1))
                    ELSE {[k |-> StripAll(Chars(attributes(h[n].cls)[i])),
                           v |-> _format_value(value)]} :
           i \in DOMAIN attributes(h[n].cls)}

\* C13: when a declared attribute field holds a childless node, the element
\* carries the key/value pairs of that node's own non-absent declared
\* attributes; the field's own name becomes a key only if one of those pairs
\* or another attribute gives it, and the node gives no child element.
C13_FlattenedPairsCarried ==
    Serialized =>
        /\ \A i \in DOMAIN attributes(result.cls) :
             LET value == getattr(heap, result.node, attributes(result.cls)[i])
             IN  is_xmlmodel(value) =>
                    \A p \in OwnPairs(heap, value.n, MaxNodes) :
                        \E j \in DOMAIN result.el.attrib : result.el.attrib[j] = p
        /\ \A j \in DOMAIN result.el.attrib :
             result.el.attrib[j] \in OwnPairs(heap, result.node, MaxNodes)
        /\ Len(result.el.children) = Len(ChildNodes(heap, result.node, 1))

\* two values are equal up to the identity of the nodes they refer to
RECURSIVE SameValue(_, _, _, _)
\* nodes a and b are instances of one type with the same field values, nodes
\* held in fields compared the same way
SameNode(h, a, b, fuel) ==
    /\ h[a].cls = h[b].cls
    /\ \A f \in DOMAIN h[a].fields : SameValue(h, h[a].fields[f], h[b].fields[f], fuel)

SameValue(h, v, w, fuel) ==
    IF is_xmlmodel(v) /\ is_xmlmodel(w)
    THEN fuel > 0 /\ SameNode(h, v.n, w.n, fuel - 1)
    ELSE IF is_list(v) /\ is_list(w)
    THEN /\ Len(v.e) = Len(w.e)
         /\ \A i \in DOMAIN v.e : SameValue(h, v.e[i], w.e[i], fuel)
    ELSE v = w

----------------------------------------------------------------------------
(* Claims about the JSON round trip (checked under SpecJson) *)

RECURSIVE SnapFields(_, _, _, _, _)
\* the instance heap[n] by value: its class and its field values, the nodes
\* it holds by value too
Snapshot(h, n) == ModelValue(h[n].cls, SnapFields(h, n, FieldDescs(h[n].cls), 1, <<>>))

SnapValue(h, value) == IF is_xmlmodel(value) THEN Snapshot(h, value.n) ELSE value

SnapFields(h, n, fds, i, acc) ==
    IF i > Len(fds) THEN acc
    ELSE SnapFields(h, n, fds, i + 1,
                    Append(acc, Item(fds[i].name, SnapValue(h, h[n].fields[fds[i].name]))))

\* the members of the library's discriminated unions that the program defines
Variants == {"Quat", "AxisAngle", "Euler", "XYAxes", "ZAxis", "GeomSphere"}

C16_TypeDumped ==
    result.op = "model_dump_json" =>
        /\ result.cls \in Variants =>
              /\ HasItem(result.val, "type")
              /\ ItemOf(result.val, "type") = PyStr(Annotation(result.cls, "type").lit.s)
        /\ \A i \in DOMAIN result.val.e :
              result.val.e[i].e[1].k = "dict" => HasItem(result.val.e[i].e[1], "type")

C16_Witness ==
    /\ result.op = "model_dump_json"
    /\ result.cls = "GeomSphere"
    /\ result.args["exclude_none"] = PyBool(TRUE)
    /\ heap[result.node].fields["name"] = None
    /\ ~HasItem(result.val, "name")
    /\ HasItem(result.val, "size")

----------------------------------------------------------------------------
(* Claims about the position helper (checked under SpecPos) *)

\* C17: the element of a Body whose `pos` holds a Pos carries the attribute
\* pos with the helper's vector, space-separated.
C17_PosAttribute ==
    (/\ Serialized
     /\ result.cls = "Body"
     /\ is_xmlmodel(heap[result.node].fields["pos"]))
        => \E i \in DOMAIN result.el.attrib :
              /\ result.el.attrib[i].k = <<"p", "o", "s">>
              /\ result.el.attrib[i].v =
                    _format_value(heap[heap[result.node].fields["pos"].n].fields["pos"])

----------------------------------------------------------------------------
(* Claims about geoms (checked under SpecGeom) *)

\* the names of the five frame-orientation attributes
OrientationKeys ==
    {<<"q", "u", "a", "t">>, <<"a", "x", "i", "s", "a", "n", "g", "l", "e">>,
     <<"x", "y", "a", "x", "e", "s">>, <<"z", "a", "x", "i", "s">>,
     <<"e", "u", "l", "e", "r">>}

\* C18: an element produced by to_xml carries at most one of the attributes
\* quat, axisangle, xyaxes, zaxis and euler.
C18_OneOrientation ==
    Serialized => Cardinality(Keys(result.el.attrib) \cap OrientationKeys) <= 1

----------------------------------------------------------------------------
(* Claims about free joints and the world body (checked under SpecWorld) *)

HasAttr(el, key, text) ==
    \E i \in DOMAIN el.attrib : el.attrib[i].k = key /\ el.attrib[i].v = text

\* C19: the element of a FreeJoint is a joint element with type="free", and
\* it carries name and group whenever those fields are set.
C19_FreeJointElement ==
    (Serialized /\ result.cls = "FreeJoint") =>
        /\ result.el.tag = "joint"
        /\ HasAttr(result.el, <<"t", "y", "p", "e">>, <<"f", "r", "e", "e">>)
        /\ heap[result.node].fields["name"] # None =>
              HasAttr(result.el, <<"n", "a", "m", "e">>,
                      _format_value(heap[result.node].fields["name"]))
        /\ heap[result.node].fields["group"] # None =>
              HasAttr(result.el, <<"g", "r", "o", "u", "p">>,
                      _format_value(heap[result.node].fields["group"]))

\* C20: the element of a WorldBody is a worldbody element without attributes
\* and without inertial or joint children, whatever fields are set.
C20_WorldBodyElement ==
    (Serialized /\ result.cls = "WorldBody") =>
        /\ result.el.tag = "worldbody"
        /\ result.el.attrib = <<>>
        /\ \A k \in DOMAIN result.el.children :
              result.el.children[k].tag \notin {"inertial", "joint"}

----------------------------------------------------------------------------
(* Claims about the formatter (checked under SpecFmt) *)

TrueText == <<"t", "r", "u", "e">>
FalseText == <<"f", "a", "l", "s", "e">>

\* C9: _format_value renders a boolean as the literal text "true" or "false",
\* never "True", "False", "1" or "0": the boolean rule wins over the sequence,
\* enum and default-string rules.
C9_BooleanLiteral ==
    (result.op = "format" /\ is_bool(result.val)) =>
        /\ result.out = (IF result.val.n = 1 THEN TrueText ELSE FalseText)
        /\ result.out \notin {<<"T", "r", "u", "e">>, <<"F", "a", "l", "s", "e">>,
                               <<"1">>, <<"0">>}
        /\ result.out # str(result.val)

C9_Witness ==
    result.op = "format" /\ result.val = PyBool(TRUE) /\ result.out = TrueText

\* the pieces of a text between single spaces
RECURSIVE SplitAcc(_, _, _)
SplitAcc(text, cur, acc) ==
    IF text = <<>> THEN Append(acc, cur)
    ELSE IF Head(text) = " " THEN SplitAcc(Tail(text), <<>>, Append(acc, cur))
    ELSE SplitAcc(Tail(text), Append(cur, Head(text)), acc)

Split(text) == SplitAcc(text, <<>>, <<>>)

IsNumericSequence(v) ==
    /\ v.k \in {"tuple", "list", "ndarray"}
    /\ \A i \in 1..Len(v.e) : v.e[i].k \in {"int", "float"}

\* C10: _format_value renders a numeric tuple, list or array as the default
\* string forms of its elements, in order, separated by exactly one space with
\* no leading or trailing space; (1, 2, 3) gives "1 2 3", an empty sequence
\* gives the empty text, and a plain string is returned whole, never split.
C10_SequenceJoin ==
    result.op = "format" =>
        /\ (IsNumericSequence(result.val) /\ result.val.e = <<>>) =>
               result.out = <<>>
        /\ (IsNumericSequence(result.val) /\ result.val.e # <<>>) =>
               Split(result.out) =
                   [i \in 1..Len(result.val.e) |-> str(result.val.e[i])]
        /\ result.val.e = <<PyInt(1), PyInt(2), PyInt(3)>> =>
               result.out = <<"1", " ", "2", " ", "3">>
        /\ result.val.k = "str" => result.out = result.val.s

C10_Witness ==
    /\ result.op = "format"
    /\ result.val = PyTuple(<<PyInt(1), PyInt(2), PyInt(3)>>)
    /\ result.out = <<"1", " ", "2", " ", "3">>

\* C11: _format_value renders a StrEnum member as its underlying string
\* value, never as its member name: SPHERE gives "sphere".
C11_EnumValue ==
    (result.op = "format" /\ result.val.k = "enum") =>
        /\ result.out = result.val.s
        /\ result.val.m # result.val.s => result.out # result.val.m
        /\ result.val = SPHERE => result.out = <<"s", "p", "h", "e", "r", "e">>
        /\ result.val = RK4 => result.out = <<"R", "K", "4">>

C11_Witness ==
    /\ result.op = "format"
    /\ result.val = SPHERE
    /\ result.out = <<"s", "p", "h", "e", "r", "e">>
====
